---- MODULE Spec2Model ----
(***************************************************************************)
(* VendHub CSV ingestion and inventory reconciliation.                     *)
(*                                                                         *)
(* The model follows the upload handler (src/app/api/upload-csv/route.ts)  *)
(* and the pipeline it drives (src/lib/services/csv-processor.service.ts)  *)
(* one store operation per step, over a store of five tables               *)
(* (src/database-setup.sql).  Strings are TLA+ strings; TLC evaluates Len, *)
(* SubSeq, Head, Tail and \o on them, so the text functions are computed   *)
(* character by character as the code computes them.                       *)
(***************************************************************************)
EXTENDS Integers, Sequences, FiniteSets, TLC

(***************************************************************************)
(* Bounds of the model.                                                    *)
(***************************************************************************)
\* lines after the header line in the file of a request that runs alone
MaxLines == 2
\* lines after the header line in each file of two overlapping requests
MaxOverlapLines == 1
\* store operations that the store rejects in one behaviour
MaxFaults == 1

(***************************************************************************)
(* Text helpers (JavaScript String methods used by the code).              *)
(***************************************************************************)
Char(s, i) == SubSeq(s, i, i)

Max2(a, b) == IF a >= b THEN a ELSE b

\* String.prototype.startsWith
StartsWith(s, p) == Len(s) >= Len(p) /\ SubSeq(s, 1, Len(p)) = p

\* String.prototype.includes
Includes(s, sub) ==
    LET includes[text \in STRING, part \in STRING] ==
            \E i \in 1..(Len(text) - Len(part) + 1) : SubSeq(text, i, i + Len(part) - 1) = part
    IN  includes[s, sub]

\* String.prototype.trim, for the blank character the inputs use
TrimStart(s) ==
    LET from[t \in STRING] == IF Len(t) > 0 /\ Char(t, 1) = " " THEN from[Tail(t)] ELSE t
    IN  from[s]

TrimEnd(s) ==
    LET upto[t \in STRING] ==
            IF Len(t) > 0 /\ Char(t, Len(t)) = " " THEN upto[SubSeq(t, 1, Len(t) - 1)] ELSE t
    IN  upto[s]

Trim(s) == TrimEnd(TrimStart(s))

\* String.prototype.padStart(2, "0")
PadStart2(s) == IF Len(s) >= 2 THEN s ELSE IF Len(s) = 1 THEN "0" \o s ELSE "00"

\* String.prototype.split("/") : the sequence of the parts between the slashes
SplitFrom(s, i, cur) ==
    LET split[t \in STRING, j \in Nat, part \in STRING] ==
            IF j > Len(t) THEN <<part>>
            ELSE IF Char(t, j) = "/" THEN <<part>> \o split[t, j + 1, ""]
            ELSE split[t, j + 1, part \o Char(t, j)]
    IN  split[s, i, cur]

SplitSlash(s) == SplitFrom(s, 1, "")

Digits == "0123456789"

IsDigit(c) == Includes(Digits, c) /\ Len(c) = 1

DigitVal(c) == CHOOSE n \in 0..9 : Char(Digits, n + 1) = c

\* the decimal rendering of a small natural number, as a template literal gives it
RECURSIVE NatStr(_)
NatStr(n) == IF n < 10 THEN Char(Digits, n + 1) ELSE NatStr(n \div 10) \o Char(Digits, (n % 10) + 1)

\* Array.prototype.join(separator)
RECURSIVE JoinWith(_, _)
JoinWith(xs, separator) ==
    IF Len(xs) = 0 THEN ""
    ELSE IF Len(xs) = 1 THEN xs[1]
    ELSE xs[1] \o separator \o JoinWith(Tail(xs), separator)

Join(xs) == JoinWith(xs, ", ")

\* the longest prefix of s made of digits
DigitRun(s) ==
    LET run[t \in STRING] ==
            IF Len(t) > 0 /\ IsDigit(Char(t, 1)) THEN Char(t, 1) \o run[Tail(t)] ELSE ""
    IN  run[s]

\* the value of a string of digits
NatVal(s) ==
    LET val[t \in STRING] ==
            IF Len(t) = 0 THEN 0
            ELSE val[SubSeq(t, 1, Len(t) - 1)] * 10 + DigitVal(Char(t, Len(t)))
    IN  val[s]

\* String.prototype.replace(/[^0-9.-]/g, "")
StripNonNumeric(s) ==
    LET strip[t \in STRING] ==
            IF Len(t) = 0 THEN ""
            ELSE (IF IsDigit(Char(t, 1)) \/ Char(t, 1) \in {".", "-"} THEN Char(t, 1) ELSE "")
                 \o strip[Tail(t)]
    IN  strip[s]

StripTrailingZeros(s) ==
    LET strip[t \in STRING] ==
            IF Len(t) > 0 /\ Char(t, Len(t)) = "0" THEN strip[SubSeq(t, 1, Len(t) - 1)] ELSE t
    IN  strip[s]

\* Number.parseFloat on a string of digits, "." and "-": an optional sign, a run
\* of digits, an optional "." and a run of digits; NaN when no digit was read.
\* A number is [nan, neg, units, frac]: (+/-) units.frac
parseFloat(s) ==
    LET number[text \in STRING] ==
            LET neg   == StartsWith(text, "-")
                body  == IF neg THEN Tail(text) ELSE text
                whole == DigitRun(body)
                rest  == SubSeq(body, Len(whole) + 1, Len(body))
                frac  == IF StartsWith(rest, ".") THEN DigitRun(Tail(rest)) ELSE ""
            IN  [nan   |-> (whole = "" /\ frac = ""),
                 neg   |-> neg,
                 units |-> NatVal(whole),
                 frac  |-> StripTrailingZeros(frac)]
    IN  number[s]

\* price < 0 (minus zero is not below zero)
IsNegative(n) == ~n.nan /\ n.neg /\ (n.units > 0 \/ n.frac # "")

(***************************************************************************)
(* CSV text to rows (src/lib/utils/validation.ts).                         *)
(***************************************************************************)
\* parseCSVLine's loop from position i up to the unquoted comma that ends the
\* field (or the end of the line): the field's text, the position after it,
\* and whether a comma ended it
ScanField(line, i, current, inQuotes) ==
    LET scan[l \in STRING, j \in Nat, text \in STRING, quoted \in BOOLEAN] ==
            IF j > Len(l) THEN [text |-> text, next |-> j, more |-> FALSE]
            ELSE LET char == Char(l, j) IN
                 IF char = "\""
                 THEN IF quoted /\ j < Len(l) /\ Char(l, j + 1) = "\""
                      THEN scan[l, j + 2, text \o "\"", quoted]
                      ELSE scan[l, j + 1, text, ~quoted]
                 ELSE IF char = "," /\ ~quoted
                      THEN [text |-> text, next |-> j + 1, more |-> TRUE]
                      ELSE scan[l, j + 1, text \o char, quoted]
    IN  scan[line, i, current, inQuotes]

\* parseCSVLine: one pass over the characters with a quote flag; every field
\* is trimmed when it is pushed
ParseLineFrom(line, i) ==
    LET from[l \in STRING, j \in Nat] ==
            LET fields[field \in {ScanField(l, j, "", FALSE)}] ==
                    IF field.more
                    THEN <<Trim(field.text)>> \o from[l, field.next]
                    ELSE <<Trim(field.text)>>
            IN  fields[ScanField(l, j, "", FALSE)]
    IN  from[line, i]

\* a split at every comma, with the quote characters dropped from the fields
parseCSVLine_SplitAtEveryComma(line) ==
    LET unquoted[t \in STRING] ==
            IF Len(t) = 0 THEN ""
            ELSE (IF Char(t, 1) = "\"" THEN "" ELSE Char(t, 1)) \o unquoted[Tail(t)]
        split[t \in STRING, j \in Nat, part \in STRING] ==
            IF j > Len(t) THEN <<Trim(unquoted[part])>>
            ELSE IF Char(t, j) = "," THEN <<Trim(unquoted[part])>> \o split[t, j + 1, ""]
            ELSE split[t, j + 1, part \o Char(t, j)]
    IN  split[line, 1, ""]

\* a parser that gives up the field in hand when the line ends inside quotes
parseCSVLine_DropsUnclosedField(line) ==
    LET fields == ParseLineFrom(line, 1)
        quotes == Cardinality({i \in 1..Len(line) : Char(line, i) = "\""})
    IN  IF quotes % 2 = 1 THEN SubSeq(fields, 1, Len(fields) - 1) ELSE fields

parseCSVLine(line) == ParseLineFrom(line, 1)

\* csvContent.trim().split(/\r?\n/) on a text given as its lines: the blank
\* lines at both ends go, and so do the blanks around what is left
RECURSIVE DropLeadingBlank(_)
DropLeadingBlank(ls) ==
    IF Len(ls) > 0 /\ Trim(ls[1]) = "" THEN DropLeadingBlank(Tail(ls)) ELSE ls

RECURSIVE DropTrailingBlank(_)
DropTrailingBlank(ls) ==
    IF Len(ls) > 0 /\ Trim(ls[Len(ls)]) = ""
    THEN DropTrailingBlank(SubSeq(ls, 1, Len(ls) - 1)) ELSE ls

TrimmedLines(csvContent) ==
    LET ls == DropTrailingBlank(DropLeadingBlank(csvContent)) IN
    IF Len(ls) = 0 THEN <<"">>
    ELSE IF Len(ls) = 1 THEN <<Trim(ls[1])>>
    ELSE <<TrimStart(ls[1])>> \o SubSeq(ls, 2, Len(ls) - 1) \o <<TrimEnd(ls[Len(ls)])>>

\* !csvContent.trim()
IsEmptyContent(csvContent) == DropLeadingBlank(csvContent) = <<>>

\* one data line zipped against the header: short lines are padded with "",
\* long lines are cut at the header's length
RowOf(headers, values) ==
    LET row[hs \in {headers}, vs \in {values}] ==
            [h \in {hs[k] : k \in 1..Len(hs)} |->
                LET k == CHOOSE j \in 1..Len(hs) :
                            hs[j] = h /\ \A m \in (j + 1)..Len(hs) : hs[m] # h
                IN IF k <= Len(vs) THEN vs[k] ELSE ""]
    IN  row[headers, values]

DataRows(headers, lines, i) ==
    LET rows[hs \in {headers}, ls \in {lines}, j \in Nat] ==
            IF j > Len(ls) THEN <<>>
            ELSE IF Trim(ls[j]) = "" THEN rows[hs, ls, j + 1]
            ELSE <<RowOf(hs, parseCSVLine(Trim(ls[j])))>> \o rows[hs, ls, j + 1]
    IN  rows[headers, lines, i]

\* parseCSVFile without its two guards (lines 113-115 and 149-151 left out)
parseCSVFile_Unguarded(csvContent) ==
    LET lines == TrimmedLines(csvContent) IN
    [ok |-> TRUE, rows |-> DataRows(parseCSVLine(lines[1]), lines, 2)]

\* parseCSVFile: [ok, rows] or [ok, message]
parseCSVFile(csvContent) ==
    LET parse[lines \in {TrimmedLines(csvContent)}] ==
            IF Len(lines) < 2
            THEN [ok |-> FALSE,
                  message |-> "CSV file must contain at least a header row and one data row"]
            ELSE LET result[rows \in {DataRows(parseCSVLine(lines[1]), lines, 2)}] ==
                         IF Len(rows) = 0
                         THEN [ok |-> FALSE, message |-> "No valid data rows found in CSV file"]
                         ELSE [ok |-> TRUE, rows |-> rows]
                 IN  result[DataRows(parseCSVLine(lines[1]), lines, 2)]
    IN  parse[TrimmedLines(csvContent)]

VendorAFields == <<"Location_ID", "Product_Name", "Scancode", "Trans_Date", "Price", "Total_Amount">>
VendorBFields == <<"Site_Code", "Item_Description", "UPC", "Sale_Date", "Unit_Price", "Final_Total">>

ExpectedHeaders(dataSource) == IF dataSource = "vendor_a" THEN VendorAFields ELSE VendorBFields

\* validateCSVHeaders: the expected headers that the row's keys lack
MissingHeaders(row, expectedHeaders) ==
    {expectedHeaders[k] : k \in 1..Len(expectedHeaders)} \ DOMAIN row

\* validateSchema(VendorARowSchema | VendorBRowSchema, row): every listed
\* column is a string of length >= 1
SchemaAccepts(row, fields) ==
    \A k \in 1..Len(fields) : fields[k] \in DOMAIN row /\ Len(row[fields[k]]) >= 1

\* the validated row keeps the schema's keys only
SchemaParse(row, fields) == [f \in {fields[k] : k \in 1..Len(fields)} |-> row[f]]

(***************************************************************************)
(* Row normalizer (src/lib/services/csv-processor.service.ts).             *)
(***************************************************************************)
UpperCase == "ABCDEFGHIJKLMNOPQRSTUVWXYZ"
LowerCase == "abcdefghijklmnopqrstuvwxyz"

\* String.prototype.toLowerCase
ToLower(s) ==
    LET lower[t \in STRING] ==
            IF Len(t) = 0 THEN ""
            ELSE LET c == Char(t, 1) IN
                 (IF Includes(UpperCase, c)
                  THEN Char(LowerCase, CHOOSE k \in 1..26 : Char(UpperCase, k) = c)
                  ELSE c) \o lower[Tail(t)]
    IN  lower[s]

\* requiredFields.filter(blank): the blank columns, in the order of the list
RECURSIVE MissingFields(_, _)
MissingFields(row, fields) ==
    IF Len(fields) = 0 THEN <<>>
    ELSE (IF fields[1] \notin DOMAIN row \/ Trim(row[fields[1]]) = ""
          THEN <<fields[1]>> ELSE <<>>) \o MissingFields(row, Tail(fields))

\* validateVendorARow / validateVendorBRow: the message thrown, "" when none
ValidateRowMessage(row, fields) ==
    LET missingFields == MissingFields(row, fields) IN
    IF Len(missingFields) > 0
    THEN "Missing required fields: " \o Join(missingFields)
    ELSE ""

LegacyPrefix == "2.0_"

\* locationCode.replace(/^2\.0_/, "").trim()
normalizeLocationCode(locationCode) ==
    Trim(IF StartsWith(locationCode, LegacyPrefix)
         THEN SubSeq(locationCode, Len(LegacyPrefix) + 1, Len(locationCode))
         ELSE locationCode)

\* parseDate: [ok, value] or [ok, message]
parseDate(dateStr) ==
    IF Includes(dateStr, "/")
    THEN LET parts == SplitSlash(dateStr)
             month == parts[1]
             day   == parts[2]
             year  == IF Len(parts) >= 3 THEN parts[3] ELSE "undefined"
         IN [ok |-> TRUE, value |-> year \o "-" \o PadStart2(month) \o "-" \o PadStart2(day)]
    ELSE IF Includes(dateStr, "-")
    THEN [ok |-> TRUE, value |-> dateStr]
    ELSE [ok |-> FALSE, message |-> "Failed to parse date: " \o dateStr]

\* parsePrice: [ok, value] or [ok, message]
parsePrice(priceStr) ==
    LET price == parseFloat(StripNonNumeric(priceStr)) IN
    IF price.nan \/ IsNegative(price)
    THEN [ok |-> FALSE, message |-> "Failed to parse price: " \o priceStr]
    ELSE [ok |-> TRUE, value |-> price]

\* categorizeProduct: the first keyword group that the lower-cased name contains
categorizeProduct(productName) ==
    LET name == ToLower(productName)
        has(k) == Includes(name, k)
    IN  IF has("celsius") \/ has("red bull") \/ has("monster") THEN "Energy Drinks"
        ELSE IF has("muscle milk") \/ has("protein") THEN "Protein Drinks"
        ELSE IF has("coke") \/ has("pepsi") \/ has("sprite") \/ has("cola") THEN "Soft Drinks"
        ELSE IF has("snickers") \/ has("candy") \/ has("chocolate") THEN "Candy"
        ELSE IF has("doritos") \/ has("lays") \/ has("chips") \/ has("crackers") THEN "Snacks"
        ELSE "Other"

\* the columns of a format, in the order location, name, upc, date, price, total
NormalizeRow(row, fields) ==
    LET missing == ValidateRowMessage(row, fields) IN
    IF missing # "" THEN [ok |-> FALSE, message |-> missing]
    ELSE LET saleDate    == parseDate(row[fields[4]])
             unitPrice   == parsePrice(row[fields[5]])
             totalAmount == parsePrice(row[fields[6]])
         IN  IF ~saleDate.ok THEN [ok |-> FALSE, message |-> saleDate.message]
             ELSE IF ~unitPrice.ok THEN [ok |-> FALSE, message |-> unitPrice.message]
             ELSE IF ~totalAmount.ok THEN [ok |-> FALSE, message |-> totalAmount.message]
             ELSE [ok |-> TRUE,
                   transaction |->
                     [locationCode |-> normalizeLocationCode(row[fields[1]]),
                      productName  |-> Trim(row[fields[2]]),
                      upc          |-> Trim(row[fields[3]]),
                      saleDate     |-> saleDate.value,
                      unitPrice    |-> unitPrice.value,
                      totalAmount  |-> totalAmount.value,
                      rawData      |-> row]]

\* normalizeVendorARow with the unit price read from the Total_Amount column
normalizeVendorARow_PriceFromTotal(row) ==
    NormalizeRow([row EXCEPT !["Price"] = row["Total_Amount"]], VendorAFields)

normalizeVendorARow(row) == NormalizeRow(row, VendorAFields)
normalizeVendorBRow(row) == NormalizeRow(row, VendorBFields)

\* the message numbered from 0
RowError_ZeroBased(index, errorMessage) == "Row " \o NatStr(index) \o ": " \o errorMessage

\* results.errors.push(`Row ${index + 1}: ${errorMessage}`), index counted from 0
RowError(index, errorMessage) == "Row " \o NatStr(index + 1) \o ": " \o errorMessage

(***************************************************************************)
(* State.                                                                  *)
(*   locations, products, inventory, sales_transactions, data_imports:     *)
(*     the tables of the store, each a sequence of rows; a row's id is its *)
(*     position (rows are never deleted by the pipeline).                  *)
(*   req:  the upload requests, each with the handler's position (pc) and  *)
(*     its local variables.                                                *)
(*   faults: how many store operations the store has rejected so far.      *)
(*   mode: "single" when one request runs alone, "overlap" when the two    *)
(*     requests run at the same time, "legacy" when one batch is handed to *)
(*     the CSVProcessor class of src/lib/csv-processor.ts.                 *)
(*   hist: per request, what became of each row that the loop has handled. *)
(*   initial: the store as the behaviour found it.                         *)
(*   call: a function of the code called on its own, with its argument and *)
(*     what it returned.                                                   *)
(***************************************************************************)
VARIABLES locations, products, inventory, sales_transactions, data_imports,
          req, faults, mode, hist, initial, call

store == <<locations, products, inventory, sales_transactions, data_imports>>
vars  == <<locations, products, inventory, sales_transactions, data_imports,
           req, faults, mode, hist, initial, call>>

\* the environment of a behaviour: never changed by the program
env == <<mode, initial, call>>

\* the two requests run at the same time
overlap == mode = "overlap"

\* the batch goes through CSVProcessor
legacy == mode = "legacy"

Requests == {1, 2}
DataSources == {"vendor_a", "vendor_b"}

SeqsUpTo(S, n) == UNION {[1..k -> S] : k \in 0..n}

(***************************************************************************)
(* The uploaded files: a header line and data lines in the two formats.    *)
(***************************************************************************)
VendorAHeader == "Location_ID,Product_Name,Scancode,Trans_Date,Price,Total_Amount"
VendorBHeader == "Site_Code,Item_Description,UPC,Sale_Date,Unit_Price,Final_Total"

HeaderLine(dataSource) == IF dataSource = "vendor_a" THEN VendorAHeader ELSE VendorBHeader

\* well-formed rows: the same site with and without the legacy prefix
GoodLines(dataSource) ==
    IF dataSource = "vendor_a"
    THEN {"2.0_SW_02,Celsius Arctic Vanilla,889392021,06/09/2025,3.50,3.82"}
    ELSE {"2.0_SW_02,\"Celsius Arctic Berry\",889392014,2025-06-09,3.50,3.82",
          "SW_02,Celsius Arctic Berry,889392014,2025-06-09,3.50,3.82"}

\* rows with a blank required column
BlankFieldLines(dataSource) ==
    IF dataSource = "vendor_a"
    THEN {"SW_02,Celsius Arctic,889392014,06/09/2025,,3.82"}
    ELSE {}

\* rows whose date or amount does not parse
UnparsableLines(dataSource) ==
    IF dataSource = "vendor_a"
    THEN {"SW_02,Celsius Arctic,889392014,20250609,3.50,3.82"}
    ELSE {"SW_02,Celsius Arctic Berry,889392014,2025-06-09,-3.50,3.82"}

\* lines of blanks, which the parser skips
BlankLines(dataSource) == IF dataSource = "vendor_a" THEN {} ELSE {"  "}

DataLines(dataSource) ==
    GoodLines(dataSource) \cup BlankFieldLines(dataSource)
        \cup UnparsableLines(dataSource) \cup BlankLines(dataSource)

\* the files of a request that runs alone
Files ==
    {<<>>} \cup
    UNION {{<<HeaderLine(h)>> \o body : body \in SeqsUpTo(DataLines(h), MaxLines)} :
              h \in DataSources}

\* the files of two overlapping requests: sales of one product at one site
OverlapLines == {"SW_02,Celsius Arctic,889392014,6/9/2025,3.50,3.82"}

OverlapFiles ==
    {<<HeaderLine("vendor_a")>> \o body : body \in SeqsUpTo(OverlapLines, MaxOverlapLines)}

(***************************************************************************)
(* The stores a request may find (src/scripts/02-seed-data.sql: both forms *)
(* of a site code are seeded, and two products share one UPC).             *)
(***************************************************************************)
SeedLocations ==
    <<[location_code |-> "2.0_SW_02", name |-> "Southwest Office Building 2",
       address |-> "123 Business Park Dr, Austin, TX"],
      [location_code |-> "SW_02", name |-> "Southwest Campus",
       address |-> "456 University Ave, Austin, TX"]>>

SeedProducts ==
    <<[name |-> "Celsius Arctic", upc |-> "889392014", category |-> "Energy Drinks"],
      [name |-> "Celsius Arctic Berry", upc |-> "889392014", category |-> "Energy Drinks"]>>

DefaultMinStock == 5
DefaultMaxStock == 50

\* the seed script's cross join of locations and products, at one stock level
SeedInventory(locs, prods, stock) ==
    [k \in 1..(Len(locs) * Len(prods)) |->
        [location_id   |-> ((k - 1) \div Len(prods)) + 1,
         product_id    |-> ((k - 1) % Len(prods)) + 1,
         current_stock |-> stock,
         min_stock     |-> DefaultMinStock,
         max_stock     |-> DefaultMaxStock]]

InitStocks == {0, 2}

EmptyStore == [locations |-> <<>>, products |-> <<>>, inventory |-> <<>>]

\* one site, one product and its inventory row, at each stock level
OneSiteStores ==
    {[locations |-> <<SeedLocations[2]>>, products |-> <<SeedProducts[1]>>,
      inventory |-> SeedInventory(<<SeedLocations[2]>>, <<SeedProducts[1]>>, s)] : s \in InitStocks}

\* the stores that a batch running alone may find
InitStores ==
    {EmptyStore,
     [locations |-> <<>>, products |-> SeedProducts, inventory |-> <<>>],
     [locations |-> <<SeedLocations[1]>>, products |-> <<SeedProducts[1]>>, inventory |-> <<>>],
     [locations |-> SeedLocations, products |-> SeedProducts,
      inventory |-> SeedInventory(SeedLocations, SeedProducts, 2)]}
    \cup OneSiteStores

\* the stores that two overlapping requests may find
OverlapStores == {EmptyStore} \cup OneSiteStores

\* a column that holds no value
Null == "null"

NoResults == [processed |-> 0, failed |-> 0, errors |-> <<>>]

\* the per-row bookkeeping of hist
NoTrace ==
    [locationCode |-> "", upc |-> "",
     location |-> 0, locationInserted |-> FALSE, product |-> 0, productInserted |-> FALSE,
     sale |-> 0, inventoryId |-> 0, seeded |-> FALSE, read |-> -1, written |-> -1]

\* no function is being called on its own
NoCall == [fn |-> "", input |-> "", returned |-> FALSE, output |-> ""]

IdleRequest ==
    [pc |-> "idle", dataSource |-> "", csvContent |-> <<>>, rows |-> <<>>, importId |-> 0,
     index |-> 0, results |-> NoResults, transaction |-> <<>>, location |-> 0,
     product |-> 0, inventory |-> <<>>, trace |-> NoTrace, response |-> <<>>]

Init ==
    /\ mode \in {"single", "overlap", "legacy"}
    /\ initial \in (IF mode = "overlap" THEN OverlapStores ELSE InitStores)
    /\ locations = initial.locations
    /\ products = initial.products
    /\ inventory = initial.inventory
    /\ sales_transactions = <<>>
    /\ data_imports = <<>>
    /\ req = [u \in Requests |-> IdleRequest]
    /\ faults = 0
    /\ hist = [u \in Requests |-> <<>>]
    /\ call = NoCall

(***************************************************************************)
(* The store's answers.                                                    *)
(***************************************************************************)
\* .single(): the one matching row; with no row or several rows the client
\* returns data = null and an error with code PGRST116
Single(matches) == IF Cardinality(matches) = 1 THEN CHOOSE i \in matches : TRUE ELSE 0

UniqueViolation  == [code |-> "23505", message |-> "duplicate key value violates unique constraint"]
NotNullViolation == [code |-> "23502", message |-> "null value violates not-null constraint"]
NoSingleRow      == [code |-> "PGRST116", message |-> "JSON object requested, multiple (or no) rows returned"]
StoreFailure     == [code |-> "XX000", message |-> "the store rejected the operation"]

\* `${error}` for an error the store client returned: the client's errors are
\* Error instances named PostgrestError in some releases and plain objects in
\* others, so either text may come out
ErrorString(e) == {"PostgrestError: " \o e.message, "[object Object]"}

\* error instanceof Error ? error.message : "Unknown error", for such an error
ErrorMessage(e) == {e.message, "Unknown error"}

\* throw new Error(`<prefix>${error}`)
Wrapped(prefix, e) == {prefix \o text : text \in ErrorString(e)}

\* a store operation may be rejected while the fault budget lasts
MayFail == ~overlap /\ faults < MaxFaults

\* a locations table that answers no row to any filter on location_code
LocationsByCode_None(code) == {}

\* an inventory table that answers no row to any filter on the pair
InventoryByPair_None(l, p) == {}

\* the lookup filtering on the name column instead of location_code
LocationsByCode_ByName(code) == {i \in 1..Len(locations) : locations[i].name = code}

LocationsByCode(code) == {i \in 1..Len(locations) : locations[i].location_code = code}
ProductsByUPC(upc) == {i \in 1..Len(products) : products[i].upc = upc}
InventoryByPair(l, p) ==
    {i \in 1..Len(inventory) : inventory[i].location_id = l /\ inventory[i].product_id = p}

(***************************************************************************)
(* POST /api/upload-csv (src/app/api/upload-csv/route.ts).                 *)
(***************************************************************************)
Respond(r, response) == [r EXCEPT !.pc = "done", !.response = response]

ErrorResponse(status, error) == [success |-> FALSE, status |-> status, error |-> error]

\* lines 14-114: read the file, reject an empty text, parse the rows
Post(u) ==
    /\ req[u].pc = "idle"
    /\ ~legacy
    /\ \E dataSource \in DataSources, csvContent \in (IF overlap THEN OverlapFiles ELSE Files) :
          /\ overlap => dataSource = "vendor_a"
          /\ ~overlap => u = 1
          /\ LET r == [req[u] EXCEPT !.dataSource = dataSource, !.csvContent = csvContent]
                 parsed == parseCSVFile(csvContent)
             IN  req' = [req EXCEPT ![u] =
                    IF IsEmptyContent(csvContent)
                    THEN Respond(r, ErrorResponse(400, "CSV file is empty"))
                    ELSE IF ~parsed.ok
                    THEN Respond(r, ErrorResponse(400, "Failed to parse CSV: " \o parsed.message))
                    ELSE [r EXCEPT !.pc = "create_import", !.rows = parsed.rows]]
    /\ UNCHANGED <<store, faults, env, hist>>

\* lines 116-152: insert the data-import record
CreateImport(u) ==
    /\ req[u].pc = "create_import"
    /\ \/ /\ data_imports' = Append(data_imports,
                [data_source    |-> req[u].dataSource,
                 total_rows     |-> Len(req[u].rows),
                 processed_rows |-> 0,
                 failed_rows    |-> 0,
                 status         |-> "processing",
                 error_details  |-> Null])
          /\ req' = [req EXCEPT ![u].pc = "validate", ![u].importId = Len(data_imports) + 1]
          /\ UNCHANGED faults
       \/ /\ MayFail
          /\ faults' = faults + 1
          /\ req' = [req EXCEPT ![u] =
                Respond(@, ErrorResponse(500, "Failed to create import record: " \o StoreFailure.message))]
          /\ UNCHANGED data_imports
    /\ UNCHANGED <<locations, products, inventory, sales_transactions, env, hist>>

\* the first row that the schema rejects, 0 when every row passes
FirstRejected(rows, fields) ==
    IF \A i \in 1..Len(rows) : SchemaAccepts(rows[i], fields) THEN 0
    ELSE CHOOSE i \in 1..Len(rows) :
            /\ ~SchemaAccepts(rows[i], fields)
            /\ \A j \in 1..(i - 1) : SchemaAccepts(rows[j], fields)

\* lines 154-190 and 194-225: check the headers, then every row against the
\* schema of the format; either check returns an error response
Validate(u) ==
    /\ req[u].pc = "validate"
    /\ LET r == req[u]
           fields == ExpectedHeaders(r.dataSource)
           missingHeaders == MissingHeaders(r.rows[1], fields)
           rejected == FirstRejected(r.rows, fields)
       IN  req' = [req EXCEPT ![u] =
              IF missingHeaders # {}
              THEN Respond(r, ErrorResponse(400, "Header validation failed"))
              ELSE IF rejected # 0
              THEN Respond(r, ErrorResponse(400, "Row " \o NatStr(rejected) \o " validation failed"))
              ELSE [r EXCEPT !.pc = "loop",
                             !.rows = [i \in 1..Len(r.rows) |-> SchemaParse(r.rows[i], fields)],
                             !.index = 0,
                             !.results = NoResults]]
    /\ UNCHANGED <<store, faults, env, hist>>

(***************************************************************************)
(* CSVProcessorService (src/lib/services/csv-processor.service.ts).        *)
(***************************************************************************)
\* the end of an iteration that also steps over the row that follows
RowProcessed_SkipNext(r) ==
    [r EXCEPT !.pc = "loop",
              !.results.processed = @ + 1,
              !.index = @ + 2,
              !.transaction = <<>>, !.location = 0, !.product = 0, !.inventory = <<>>,
              !.trace = NoTrace]

\* the end of one loop iteration: the try block completed, or its catch ran
RowProcessed(r) ==
    [r EXCEPT !.pc = "loop",
              !.results.processed = @ + 1,
              !.index = @ + 1,
              !.transaction = <<>>, !.location = 0, !.product = 0, !.inventory = <<>>,
              !.trace = NoTrace]

\* the catch block without results.failed++
RowFailed_NoCount(r, errorMessage) ==
    [r EXCEPT !.pc = "loop",
              !.results.errors = Append(@, RowError(r.index, errorMessage)),
              !.index = @ + 1,
              !.transaction = <<>>, !.location = 0, !.product = 0, !.inventory = <<>>,
              !.trace = NoTrace]

\* the catch block ending the loop at the first failed row
RowFailed_Abort(r, errorMessage) ==
    [r EXCEPT !.pc = "loop",
              !.results.failed = @ + 1,
              !.results.errors = Append(@, RowError(r.index, errorMessage)),
              !.index = Len(r.rows),
              !.transaction = <<>>, !.location = 0, !.product = 0, !.inventory = <<>>,
              !.trace = NoTrace]

\* a failed row that is left in place, to be taken again by the loop
RowFailed_Retry(r, errorMessage) ==
    [r EXCEPT !.pc = "loop",
              !.results.failed = @ + 1,
              !.results.errors = Append(@, RowError(r.index, errorMessage)),
              !.transaction = <<>>, !.location = 0, !.product = 0, !.inventory = <<>>,
              !.trace = NoTrace]

RowFailed(r, errorMessage) ==
    [r EXCEPT !.pc = "loop",
              !.results.failed = @ + 1,
              !.results.errors = Append(@, RowError(r.index, errorMessage)),
              !.index = @ + 1,
              !.transaction = <<>>, !.location = 0, !.product = 0, !.inventory = <<>>,
              !.trace = NoTrace]

Outcome(r, outcome, message) ==
    [row |-> r.index + 1, outcome |-> outcome, message |-> message, trace |-> r.trace]

\* the catch block of the loop, reached from the step that threw
Throw(u, r, errorMessage) ==
    /\ req' = [req EXCEPT ![u] = RowFailed(r, errorMessage)]
    /\ hist' = [hist EXCEPT ![u] = Append(@, Outcome(r, "failed", errorMessage))]

\* a throw whose message is one of several renderings of the error
Fails(u, r, messages) == \E errorMessage \in messages : Throw(u, r, errorMessage)

\* a store operation that the store rejects: the row fails with the error's message
Rejected(u, messages) ==
    /\ MayFail
    /\ faults' = faults + 1
    /\ Fails(u, req[u], messages)
    /\ UNCHANGED store

\* processVendorA / processVendorB, lines 64-100: the loop test and the row's
\* normalization; the loop ends by returning the results to the handler
NextRow(u) ==
    /\ req[u].pc = "loop"
    /\ LET r == req[u] IN
       \/ /\ r.index >= Len(r.rows)
          /\ req' = [req EXCEPT ![u].pc = "update_import"]
          /\ UNCHANGED hist
       \/ /\ r.index < Len(r.rows)
          /\ LET row == r.rows[r.index + 1]
                 normalized == IF r.dataSource = "vendor_a"
                               THEN normalizeVendorARow(row)
                               ELSE normalizeVendorBRow(row)
             IN  IF normalized.ok
                 THEN /\ req' = [req EXCEPT
                                ![u].pc = "find_location",
                                ![u].transaction = normalized.transaction,
                                ![u].trace.locationCode = normalized.transaction.locationCode,
                                ![u].trace.upc = normalized.transaction.upc]
                      /\ UNCHANGED hist
                 ELSE Throw(u, r, normalized.message)
    /\ UNCHANGED <<store, faults, env>>

\* findOrCreateLocation, lines 157-169: the lookup by the normalized code
FindLocation(u) ==
    /\ req[u].pc = "find_location"
    /\ LET r == req[u]
           existingLocation == Single(LocationsByCode(r.transaction.locationCode))
       IN  \/ /\ existingLocation # 0
              /\ req' = [req EXCEPT ![u].pc = "find_product",
                                    ![u].location = existingLocation,
                                    ![u].trace.location = existingLocation]
              /\ UNCHANGED <<store, faults, hist>>
           \/ /\ existingLocation = 0
              /\ req' = [req EXCEPT ![u].pc = "insert_location"]
              /\ UNCHANGED <<store, faults, hist>>
           \/ Rejected(u, Wrapped("Failed to find or create location: ", StoreFailure))
    /\ UNCHANGED env

\* findOrCreateLocation, lines 171-185: the insert; location_code is UNIQUE
InsertLocation(u) ==
    /\ req[u].pc = "insert_location"
    /\ LET r == req[u]
           locationCode == r.transaction.locationCode
       IN  \/ /\ LocationsByCode(locationCode) = {}
              /\ locations' = Append(locations,
                    [location_code |-> locationCode,
                     name          |-> "Location " \o locationCode,
                     address       |-> "Auto-created from " \o r.dataSource \o " data"])
              /\ req' = [req EXCEPT ![u].pc = "find_product",
                                    ![u].location = Len(locations) + 1,
                                    ![u].trace.location = Len(locations) + 1,
                                    ![u].trace.locationInserted = TRUE]
              /\ UNCHANGED <<products, inventory, sales_transactions, data_imports, faults, hist>>
           \/ /\ LocationsByCode(locationCode) # {}
              /\ Fails(u, r, Wrapped("Failed to find or create location: ", UniqueViolation))
              /\ UNCHANGED <<store, faults>>
           \/ Rejected(u, Wrapped("Failed to find or create location: ", StoreFailure))
    /\ UNCHANGED env

\* findOrCreateProduct, lines 193-205: the lookup by UPC
FindProduct(u) ==
    /\ req[u].pc = "find_product"
    /\ LET r == req[u]
           existingProduct == Single(ProductsByUPC(r.transaction.upc))
       IN  \/ /\ existingProduct # 0
              /\ req' = [req EXCEPT ![u].pc = "create_sale",
                                    ![u].product = existingProduct,
                                    ![u].trace.product = existingProduct]
              /\ UNCHANGED <<store, faults, hist>>
           \/ /\ existingProduct = 0
              /\ req' = [req EXCEPT ![u].pc = "insert_product"]
              /\ UNCHANGED <<store, faults, hist>>
           \/ Rejected(u, Wrapped("Failed to find or create product: ", StoreFailure))
    /\ UNCHANGED env

\* findOrCreateProduct, lines 207-221: the insert; products.upc is not unique
InsertProduct(u) ==
    /\ req[u].pc = "insert_product"
    /\ LET r == req[u] IN
       \/ /\ products' = Append(products,
                [name     |-> r.transaction.productName,
                 upc      |-> r.transaction.upc,
                 category |-> categorizeProduct(r.transaction.productName)])
          /\ req' = [req EXCEPT ![u].pc = "create_sale",
                                ![u].product = Len(products) + 1,
                                ![u].trace.product = Len(products) + 1,
                                ![u].trace.productInserted = TRUE]
          /\ UNCHANGED <<locations, inventory, sales_transactions, data_imports, faults, hist>>
       \/ Rejected(u, Wrapped("Failed to find or create product: ", StoreFailure))
    /\ UNCHANGED env

\* createSalesTransaction, lines 289-313
CreateSalesTransaction(u) ==
    /\ req[u].pc = "create_sale"
    /\ LET r == req[u] IN
       \/ /\ sales_transactions' = Append(sales_transactions,
                [location_id   |-> r.location,
                 product_id    |-> r.product,
                 quantity_sold |-> 1,
                 unit_price    |-> r.transaction.unitPrice,
                 total_amount  |-> r.transaction.totalAmount,
                 sale_date     |-> r.transaction.saleDate,
                 data_source   |-> r.dataSource,
                 raw_data      |-> r.transaction.rawData])
          /\ req' = [req EXCEPT ![u].pc = "ensure_inventory",
                                ![u].trace.sale = Len(sales_transactions) + 1]
          /\ UNCHANGED <<locations, products, inventory, data_imports, faults, hist>>
       \/ Rejected(u, {"Failed to create sales transaction: " \o StoreFailure.message})
    /\ UNCHANGED env

\* processNormalizedTransaction, line 149: one unit sold per row
QuantityChange == -1

\* ensureInventoryExists, line 244: the stock of a row the pipeline creates
SeedStock == 25

\* an adjustment that writes the stock back as it was read
NewStock_Unchanged(current_stock, quantityChange) == current_stock

\* the adjustment without the clamp at zero
NewStock_Unclamped(current_stock, quantityChange) == current_stock + quantityChange

\* updateInventory, line 271: Math.max(0, (current_stock || 0) + quantityChange)
NewStock(current_stock, quantityChange) == Max2(0, current_stock + quantityChange)

\* ensureInventoryExists, lines 229-238: the lookup by (location, product)
EnsureInventoryExists(u) ==
    /\ req[u].pc = "ensure_inventory"
    /\ LET r == req[u]
           existingInventory == Single(InventoryByPair(r.location, r.product))
       IN  \/ /\ existingInventory # 0
              /\ req' = [req EXCEPT ![u].pc = "fetch_inventory"]
              /\ UNCHANGED <<store, faults, hist>>
           \/ /\ existingInventory = 0
              /\ req' = [req EXCEPT ![u].pc = "insert_inventory"]
              /\ UNCHANGED <<store, faults, hist>>
           \/ Rejected(u, ErrorMessage(StoreFailure))
    /\ UNCHANGED env

\* ensureInventoryExists, lines 240-252: the insert; (location_id, product_id) is UNIQUE
InsertInventory(u) ==
    /\ req[u].pc = "insert_inventory"
    /\ LET r == req[u] IN
       \/ /\ InventoryByPair(r.location, r.product) = {}
          /\ inventory' = Append(inventory,
                [location_id   |-> r.location,
                 product_id    |-> r.product,
                 current_stock |-> SeedStock,
                 min_stock     |-> DefaultMinStock,
                 max_stock     |-> DefaultMaxStock])
          /\ req' = [req EXCEPT ![u].pc = "fetch_inventory", ![u].trace.seeded = TRUE]
          /\ UNCHANGED <<locations, products, sales_transactions, data_imports, faults, hist>>
       \/ /\ InventoryByPair(r.location, r.product) # {}
          /\ Fails(u, r, ErrorMessage(UniqueViolation))
          /\ UNCHANGED <<store, faults>>
       \/ Rejected(u, ErrorMessage(StoreFailure))
    /\ UNCHANGED env

\* updateInventory, lines 260-269: read the row of the pair
FetchInventory(u) ==
    /\ req[u].pc = "fetch_inventory"
    /\ LET r == req[u]
           found == Single(InventoryByPair(r.location, r.product))
       IN  \/ /\ found # 0
              /\ req' = [req EXCEPT ![u].pc = "write_inventory",
                                    ![u].inventory = [id |-> found,
                                                      current_stock |-> inventory[found].current_stock],
                                    ![u].trace.inventoryId = found,
                                    ![u].trace.read = inventory[found].current_stock]
              /\ UNCHANGED <<store, faults, hist>>
           \/ /\ found = 0
              /\ Fails(u, r, Wrapped("Failed to update inventory: ", NoSingleRow))
              /\ UNCHANGED <<store, faults>>
           \/ Rejected(u, Wrapped("Failed to update inventory: ", StoreFailure))
    /\ UNCHANGED env

\* updateInventory, lines 271-283: write the stock computed from the value read;
\* the row is then counted as processed (line 72)
WriteInventory(u) ==
    /\ req[u].pc = "write_inventory"
    /\ LET r == req[u]
           newStock == NewStock(r.inventory.current_stock, QuantityChange)
           done == [r EXCEPT !.trace.written = newStock]
       IN  \/ /\ inventory' = [inventory EXCEPT ![r.inventory.id].current_stock = newStock]
              /\ req' = [req EXCEPT ![u] = RowProcessed(done)]
              /\ hist' = [hist EXCEPT ![u] = Append(@, Outcome(done, "processed", ""))]
              /\ UNCHANGED <<locations, products, sales_transactions, data_imports, faults>>
           \/ Rejected(u, Wrapped("Failed to update inventory: ", StoreFailure))
    /\ UNCHANGED env

\* lines 249-271: write the counts to the data-import record (a rejected update
\* is ignored) and answer with the totals
UpdateImport(u) ==
    /\ req[u].pc = "update_import"
    /\ LET r == req[u]
           response == [success   |-> TRUE,
                        status    |-> 200,
                        total     |-> Len(r.rows),
                        processed |-> r.results.processed,
                        failed    |-> r.results.failed,
                        errors    |-> r.results.errors,
                        importId  |-> r.importId]
       IN  /\ req' = [req EXCEPT ![u] = Respond(r, response)]
           /\ \/ /\ data_imports' = [data_imports EXCEPT ![r.importId] =
                       [@ EXCEPT !.processed_rows = r.results.processed,
                                 !.failed_rows    = r.results.failed,
                                 !.status         = "completed",
                                 !.error_details  =
                                     IF Len(r.results.errors) > 0
                                     THEN JoinWith(r.results.errors, "\n")
                                     ELSE Null]]
                 /\ UNCHANGED faults
              \/ /\ MayFail
                 /\ faults' = faults + 1
                 /\ UNCHANGED data_imports
    /\ UNCHANGED <<locations, products, inventory, sales_transactions, env, hist>>

(***************************************************************************)
(* CSVProcessor (src/lib/csv-processor.ts): the processor that the service *)
(* replaced.  It takes the rows as parsed, with no normalization step.     *)
(***************************************************************************)
FlavorWords == {"vanilla", "berry", "arctic"}

\* name.replace(/\s+(Vanilla|Berry|Arctic).*$/i, "").trim(): the name is cut at
\* the first blank that starts a run of blanks followed by one of the words
NormalizedName(name) ==
    LET cut[text \in STRING, lower \in STRING] ==
            LET hits == {i \in 1..Len(text) :
                            /\ Char(text, i) = " "
                            /\ \E w \in FlavorWords :
                                  StartsWith(TrimStart(SubSeq(lower, i, Len(lower))), w)}
            IN  Trim(IF hits = {} THEN text
                     ELSE SubSeq(text, 1, (CHOOSE i \in hits : \A j \in hits : i <= j) - 1))
    IN  cut[name, ToLower(name)]

\* CSVProcessor.categorizeProduct, lines 85-93: the keyword groups of the
\* processor that the service replaced
CSVProcessor_categorizeProduct(name) ==
    LET lowerName == ToLower(name)
        has(k) == Includes(lowerName, k)
    IN  IF has("celsius") \/ has("red bull") THEN "Energy Drinks"
        ELSE IF has("muscle milk") \/ has("protein") THEN "Protein Drinks"
        ELSE IF has("coke") \/ has("pepsi") \/ has("sprite") THEN "Soft Drinks"
        ELSE IF has("snickers") \/ has("candy") THEN "Candy"
        ELSE IF has("doritos") \/ has("lays") \/ has("chips") THEN "Snacks"
        ELSE "Other"

\* locationCode.replace(/^2\.0_/, ""), line 31 (not trimmed)
NormalizedCode(locationCode) ==
    IF StartsWith(locationCode, LegacyPrefix)
    THEN SubSeq(locationCode, Len(LegacyPrefix) + 1, Len(locationCode))
    ELSE locationCode

\* .or(`location_code.eq.${locationCode},location_code.eq.${normalizedCode}`)
LocationsByEitherCode(locationCode) ==
    {i \in 1..Len(locations) :
        locations[i].location_code \in {locationCode, NormalizedCode(locationCode)}}

\* .or(`upc.eq.${upc},name.ilike.%${normalizedName}%`)
ProductsByUPCOrName(name, upc) ==
    {i \in 1..Len(products) :
        \/ products[i].upc = upc
        \/ Includes(ToLower(products[i].name), ToLower(NormalizedName(name)))}

\* the processor is created and handed the rows of a file of its format (the
\* rows are typed VendorARow[] or VendorBRow[]), lines 108-109 and 217-221
CSVProcessor_Start(u) ==
    /\ req[u].pc = "idle"
    /\ legacy
    /\ u = 1
    /\ \E dataSource \in DataSources, csvContent \in Files :
          /\ ~IsEmptyContent(csvContent)
          /\ csvContent[1] = HeaderLine(dataSource)
          /\ parseCSVFile(csvContent).ok
          /\ req' = [req EXCEPT ![u] =
                [@ EXCEPT !.pc = "legacy_loop",
                          !.dataSource = dataSource,
                          !.csvContent = csvContent,
                          !.rows = parseCSVFile(csvContent).rows,
                          !.index = 0,
                          !.results = NoResults]]
    /\ UNCHANGED <<store, faults, env, hist>>

\* the row that the for-of loop has in hand, and its columns in the order
\* location, name, upc, date, price, total
CurrentRow(r) == r.rows[r.index + 1]
Column(r, k) == CurrentRow(r)[ExpectedHeaders(r.dataSource)[k]]

\* the catch block, lines 138-141: results.failed++, then
\* `Row ${results.processed + results.failed}: ${error}`
CSVProcessor_RowFailed(r, error) ==
    [r EXCEPT !.pc = "legacy_loop",
              !.results.failed = @ + 1,
              !.results.errors =
                  Append(@, "Row " \o NatStr(r.results.processed + (r.results.failed + 1))
                                   \o ": " \o error),
              !.index = @ + 1,
              !.location = 0, !.product = 0, !.inventory = <<>>, !.trace = NoTrace]

\* the end of the try block, line 137: results.processed++
CSVProcessor_RowProcessed(r) ==
    [r EXCEPT !.pc = "legacy_loop",
              !.results.processed = @ + 1,
              !.index = @ + 1,
              !.location = 0, !.product = 0, !.inventory = <<>>, !.trace = NoTrace]

CSVProcessor_Throw(u, r, errors) ==
    \E error \in errors :
        /\ req' = [req EXCEPT ![u] = CSVProcessor_RowFailed(r, error)]
        /\ hist' = [hist EXCEPT ![u] = Append(@, Outcome(r, "failed", error))]

\* lines 111 and 144: the loop takes the next row, or returns the results
CSVProcessor_NextRow(u) ==
    /\ req[u].pc = "legacy_loop"
    /\ LET r == req[u] IN
       IF r.index >= Len(r.rows)
       THEN req' = [req EXCEPT ![u].pc = "returned"]
       ELSE req' = [req EXCEPT ![u].pc = "legacy_find_location",
                               ![u].trace.locationCode = Column(r, 1),
                               ![u].trace.upc = Column(r, 3)]
    /\ UNCHANGED <<store, faults, env, hist>>

\* findOrCreateLocation, lines 31-39: the lookup by either form of the code; the
\* lookup's error is not read, so a rejected lookup is a location not found
CSVProcessor_FindLocation(u) ==
    /\ req[u].pc = "legacy_find_location"
    /\ LET location == Single(LocationsByEitherCode(Column(req[u], 1))) IN
       \/ /\ location # 0
          /\ req' = [req EXCEPT ![u].pc = "legacy_find_product",
                                ![u].location = location,
                                ![u].trace.location = location]
          /\ UNCHANGED faults
       \/ /\ location = 0
          /\ req' = [req EXCEPT ![u].pc = "legacy_insert_location"]
          /\ UNCHANGED faults
       \/ /\ MayFail
          /\ faults' = faults + 1
          /\ req' = [req EXCEPT ![u].pc = "legacy_insert_location"]
    /\ UNCHANGED <<store, env, hist>>

\* findOrCreateLocation, lines 40-51: the insert of the code as the row has it
CSVProcessor_InsertLocation(u) ==
    /\ req[u].pc = "legacy_insert_location"
    /\ LET r == req[u]
           locationCode == Column(r, 1)
       IN  \/ /\ LocationsByCode(locationCode) = {}
              /\ locations' = Append(locations,
                    [location_code |-> locationCode,
                     name          |-> "Location " \o locationCode,
                     address       |-> "Auto-created from " \o r.dataSource \o " data"])
              /\ req' = [req EXCEPT ![u].pc = "legacy_find_product",
                                    ![u].location = Len(locations) + 1,
                                    ![u].trace.location = Len(locations) + 1,
                                    ![u].trace.locationInserted = TRUE]
              /\ UNCHANGED <<products, inventory, sales_transactions, data_imports, faults, hist>>
           \/ /\ LocationsByCode(locationCode) # {}
              /\ CSVProcessor_Throw(u, r, ErrorString(UniqueViolation))
              /\ UNCHANGED <<store, faults>>
           \/ /\ MayFail
              /\ faults' = faults + 1
              /\ CSVProcessor_Throw(u, r, ErrorString(StoreFailure))
              /\ UNCHANGED store
    /\ UNCHANGED env

\* findOrCreateProduct, lines 59-67: the lookup by UPC or by name; its error is not read
CSVProcessor_FindProduct(u) ==
    /\ req[u].pc = "legacy_find_product"
    /\ LET product == Single(ProductsByUPCOrName(Column(req[u], 2), Column(req[u], 3))) IN
       \/ /\ product # 0
          /\ req' = [req EXCEPT ![u].pc = "legacy_insert_sale",
                                ![u].product = product,
                                ![u].trace.product = product]
          /\ UNCHANGED faults
       \/ /\ product = 0
          /\ req' = [req EXCEPT ![u].pc = "legacy_insert_product"]
          /\ UNCHANGED faults
       \/ /\ MayFail
          /\ faults' = faults + 1
          /\ req' = [req EXCEPT ![u].pc = "legacy_insert_product"]
    /\ UNCHANGED <<store, env, hist>>

\* findOrCreateProduct, lines 67-80: the insert
CSVProcessor_InsertProduct(u) ==
    /\ req[u].pc = "legacy_insert_product"
    /\ LET r == req[u] IN
       \/ /\ products' = Append(products,
                [name     |-> Column(r, 2),
                 upc      |-> Column(r, 3),
                 category |-> CSVProcessor_categorizeProduct(Column(r, 2))])
          /\ req' = [req EXCEPT ![u].pc = "legacy_insert_sale",
                                ![u].product = Len(products) + 1,
                                ![u].trace.product = Len(products) + 1,
                                ![u].trace.productInserted = TRUE]
          /\ UNCHANGED <<locations, inventory, sales_transactions, data_imports, faults, hist>>
       \/ /\ MayFail
          /\ faults' = faults + 1
          /\ CSVProcessor_Throw(u, r, ErrorString(StoreFailure))
          /\ UNCHANGED store
    /\ UNCHANGED env

\* lines 116-132: the date and the two amounts are parsed and the sale is
\* inserted; a date in neither form throws, an amount that is NaN goes to the
\* store as null, which the NOT NULL columns reject
CSVProcessor_InsertSale(u) ==
    /\ req[u].pc = "legacy_insert_sale"
    /\ LET r == req[u]
           saleDate    == parseDate(Column(r, 4))
           unitPrice   == parseFloat(Column(r, 5))
           totalAmount == parseFloat(Column(r, 6))
       IN  IF ~saleDate.ok
           THEN /\ CSVProcessor_Throw(u, r, {"Error: Invalid date format: " \o Column(r, 4)})
                /\ UNCHANGED <<store, faults>>
           ELSE IF unitPrice.nan \/ totalAmount.nan
           THEN /\ CSVProcessor_Throw(u, r, ErrorString(NotNullViolation))
                /\ UNCHANGED <<store, faults>>
           ELSE \/ /\ sales_transactions' = Append(sales_transactions,
                         [location_id   |-> r.location,
                          product_id    |-> r.product,
                          quantity_sold |-> 1,
                          unit_price    |-> unitPrice,
                          total_amount  |-> totalAmount,
                          sale_date     |-> saleDate.value,
                          data_source   |-> r.dataSource,
                          raw_data      |-> CurrentRow(r)])
                   /\ req' = [req EXCEPT ![u].pc = "legacy_fetch_inventory",
                                         ![u].trace.sale = Len(sales_transactions) + 1]
                   /\ UNCHANGED <<locations, products, inventory, data_imports, faults, hist>>
                \/ /\ MayFail
                   /\ faults' = faults + 1
                   /\ CSVProcessor_Throw(u, r, ErrorString(StoreFailure))
                   /\ UNCHANGED store
    /\ UNCHANGED env

\* updateInventory, lines 188-195: read the row of the pair; the error is not
\* read, so a rejected read is a row not found
CSVProcessor_FetchInventory(u) ==
    /\ req[u].pc = "legacy_fetch_inventory"
    /\ LET r == req[u]
           found == Single(InventoryByPair(r.location, r.product))
       IN  \/ /\ found # 0
              /\ req' = [req EXCEPT ![u].pc = "legacy_write_inventory",
                                    ![u].inventory = [id |-> found,
                                                      current_stock |-> inventory[found].current_stock],
                                    ![u].trace.inventoryId = found,
                                    ![u].trace.read = inventory[found].current_stock]
              /\ UNCHANGED faults
           \/ /\ found = 0
              /\ req' = [req EXCEPT ![u].pc = "legacy_write_inventory",
                                    ![u].inventory = [id |-> 0, current_stock |-> 0]]
              /\ UNCHANGED faults
           \/ /\ MayFail
              /\ faults' = faults + 1
              /\ req' = [req EXCEPT ![u].pc = "legacy_write_inventory",
                                    ![u].inventory = [id |-> 0, current_stock |-> 0]]
    /\ UNCHANGED <<store, env, hist>>

\* updateInventory, lines 195-214, and line 137: the stock is written, or a row
\* is inserted with Math.max(0, quantityChange); neither result is read, so the
\* row is counted as processed whatever the store answered
CSVProcessor_UpdateInventory(u) ==
    /\ req[u].pc = "legacy_write_inventory"
    /\ LET r == req[u]
           newStock == NewStock(r.inventory.current_stock, QuantityChange)
           written  == [r EXCEPT !.trace.written = newStock]
           created  == [r EXCEPT !.trace.seeded = TRUE,
                                 !.trace.inventoryId = Len(inventory) + 1]
           Count(done) ==
               /\ req' = [req EXCEPT ![u] = CSVProcessor_RowProcessed(done)]
               /\ hist' = [hist EXCEPT ![u] = Append(@, Outcome(done, "processed", ""))]
       IN  \/ /\ r.inventory.id # 0
              /\ inventory' = [inventory EXCEPT ![r.inventory.id].current_stock = newStock]
              /\ Count(written)
              /\ UNCHANGED faults
           \/ /\ r.inventory.id = 0
              /\ InventoryByPair(r.location, r.product) = {}
              /\ inventory' = Append(inventory,
                    [location_id   |-> r.location,
                     product_id    |-> r.product,
                     current_stock |-> Max2(0, QuantityChange),
                     min_stock     |-> DefaultMinStock,
                     max_stock     |-> DefaultMaxStock])
              /\ Count(created)
              /\ UNCHANGED faults
           \/ /\ r.inventory.id = 0
              /\ InventoryByPair(r.location, r.product) # {}
              /\ Count(r)
              /\ UNCHANGED <<inventory, faults>>
           \/ /\ MayFail
              /\ faults' = faults + 1
              /\ Count(r)
              /\ UNCHANGED inventory
    /\ UNCHANGED <<locations, products, sales_transactions, data_imports, env>>

Next ==
    \E u \in Requests :
       \/ Post(u)
       \/ CreateImport(u)
       \/ Validate(u)
       \/ NextRow(u)
       \/ FindLocation(u)
       \/ InsertLocation(u)
       \/ FindProduct(u)
       \/ InsertProduct(u)
       \/ CreateSalesTransaction(u)
       \/ EnsureInventoryExists(u)
       \/ InsertInventory(u)
       \/ FetchInventory(u)
       \/ WriteInventory(u)
       \/ UpdateImport(u)
       \/ CSVProcessor_Start(u)
       \/ CSVProcessor_NextRow(u)
       \/ CSVProcessor_FindLocation(u)
       \/ CSVProcessor_InsertLocation(u)
       \/ CSVProcessor_FindProduct(u)
       \/ CSVProcessor_InsertProduct(u)
       \/ CSVProcessor_InsertSale(u)
       \/ CSVProcessor_FetchInventory(u)
       \/ CSVProcessor_UpdateInventory(u)

Spec == Init /\ [][Next]_vars

\* every awaited store operation returns, with a result or with an error, so a
\* request that can take a step eventually takes one
LiveSpec == Spec /\ WF_vars(Next)

(***************************************************************************)
(* The functions of the processors, called on their own.                   *)
(***************************************************************************)
\* words that product names are made of: the keywords of the two
\* categorizeProduct methods in several spellings, and words that are none
NameWords ==
    {"Celsius", "RED BULL", "monster", "Muscle Milk", "PROTEIN", "Coke", "pepsi",
     "SPRITE", "Coca-Cola", "Snickers", "CANDY", "chocolate", "Doritos", "LAYS",
     "chips", "Crackers", "Generic", "Water"}

\* names of one word or of two
ProductNames ==
    NameWords \cup {a \o " " \o b : a, b \in NameWords}
              \cup {"", "Celsius Arctic Berry", "Generic Water"}

\* the calls of the functions that work on a product name
ClassifierNames == {"CSVProcessorService.categorizeProduct", "CSVProcessor.categorizeProduct"}

NameCalls ==
    {[NoCall EXCEPT !.fn = fn, !.input = input] : fn \in ClassifierNames, input \in ProductNames}

\* the location codes handed to LocationService.findOrCreateByCode
LocationCodes == {"SW_02", "2.0_SW_02", "NE_01"}

StoreCalls ==
    {[NoCall EXCEPT !.fn = "LocationService.findOrCreateByCode", !.input = input] :
        input \in LocationCodes}

\* the locations tables that a call of a store function finds
CallLocations == {<<>>, <<SeedLocations[1]>>, <<SeedLocations[2]>>, SeedLocations}

\* the values of a column of a row: one that is filled, an empty one and a
\* blank one
ColumnValues(field) ==
    {"", "  ",
     CASE field = "Location_ID"  -> "SW_02"
       [] field = "Product_Name" -> "Celsius Arctic"
       [] field = "Scancode"     -> "889392014"
       [] field = "Trans_Date"   -> "06/09/2025"
       [] field = "Price"        -> "$3.50"
       [] field = "Total_Amount" -> "3.82"}

VendorARows ==
    {[Location_ID |-> location, Product_Name |-> name, Scancode |-> scancode,
      Trans_Date |-> date, Price |-> price, Total_Amount |-> total] :
        location \in ColumnValues("Location_ID"), name \in ColumnValues("Product_Name"),
        scancode \in ColumnValues("Scancode"), date \in ColumnValues("Trans_Date"),
        price \in ColumnValues("Price"), total \in ColumnValues("Total_Amount")}

RowCalls ==
    {[NoCall EXCEPT !.fn = fn, !.input = input] :
        fn \in {"CSVProcessorService.validateVendorARow", "validateVendorARow"},
        input \in VendorARows}

\* the date columns handed to parseDate
DateStrings ==
    {"06/09/2025", "6/9/2025", "12/31/2025", "2025-06-09", "2025-6-9", "20250609", "",
     "06/2025", "6/9", "/", "6/9/2025/7", "06/09-2025", "June 9", "2025/06/09"}

DateParsers == {"CSVProcessorService.parseDate", "CSVProcessor.parseDate"}

DateCalls ==
    {[NoCall EXCEPT !.fn = fn, !.input = input] : fn \in DateParsers, input \in DateStrings}

\* the price and total columns handed to parsePrice
PriceStrings ==
    {"$3.50", "3.50", "3.82", "abc", "-1.00", "", "0", "-0", "$-2", "1,250.75", "USD 4",
     ".5", "7.", "1.2.3", "3-5", "--1", "$", "12"}

PriceCalls ==
    {[NoCall EXCEPT !.fn = "CSVProcessorService.parsePrice", !.input = input] :
        input \in PriceStrings}

\* the lines handed to parseCSVLine
LineStrings ==
    {"", ",", "a,b,c", "a,,b", "  a  ,  b  ", "\"b,c\"", "a,\"b,c\",d",
     "\"say \"\"hi\"\"\",x", "a,\"b", "a,\"b,c", "x,\"b,c,d , e", "\"\"", "\"\"\"\"",
     "a\"b\"c", "a\"\"b", "\" a \",b", "\"a\"\"", "\"", "a,b\"",
     "SW_02,\"Lays, Classic\",$1.25"}

LineCalls ==
    {[NoCall EXCEPT !.fn = "parseCSVLine", !.input = input] : input \in LineStrings}

CallInit ==
    /\ mode = "single"
    /\ call \in NameCalls \cup StoreCalls \cup RowCalls \cup DateCalls \cup PriceCalls
                 \cup LineCalls
    /\ locations \in (IF call \in StoreCalls THEN CallLocations ELSE {<<>>})
    /\ initial = [EmptyStore EXCEPT !.locations = locations]
    /\ products = <<>>
    /\ inventory = <<>>
    /\ sales_transactions = <<>>
    /\ data_imports = <<>>
    /\ req = [u \in Requests |-> IdleRequest]
    /\ faults = 0
    /\ hist = [u \in Requests |-> <<>>]

Returns(output) ==
    /\ ~call.returned
    /\ call' = [call EXCEPT !.returned = TRUE, !.output = output]
    /\ UNCHANGED <<store, req, faults, mode, hist, initial>>

Call_categorizeProduct ==
    /\ call.fn = "CSVProcessorService.categorizeProduct"
    /\ Returns(categorizeProduct(call.input))

Call_CSVProcessor_categorizeProduct ==
    /\ call.fn = "CSVProcessor.categorizeProduct"
    /\ Returns(CSVProcessor_categorizeProduct(call.input))

\* LocationService.findOrCreateByCode, lines 59-113: the lookup by either form
\* of the code with .single(); a row is returned only when the lookup gave a
\* row and no error, and every other answer of the lookup, a rejection by the
\* store included, goes on to the insert of the code as supplied
Call_LocationService_findOrCreateByCode ==
    /\ call.fn = "LocationService.findOrCreateByCode"
    /\ ~call.returned
    /\ \E findRejected, createRejected \in BOOLEAN :
          LET locationCode     == call.input
              normalizedCode   == IF StartsWith(locationCode, LegacyPrefix)
                                  THEN SubSeq(locationCode, Len(LegacyPrefix) + 1, Len(locationCode))
                                  ELSE locationCode
              matches          == {i \in 1..Len(locations) :
                                     locations[i].location_code \in {locationCode, normalizedCode}}
              existingLocation == IF findRejected THEN 0 ELSE Single(matches)
              rejections       == (IF findRejected THEN 1 ELSE 0)
                                    + (IF createRejected THEN 1 ELSE 0)
          IN  /\ rejections <= MaxFaults
              /\ faults' = rejections
              /\ IF existingLocation # 0
                 THEN /\ ~createRejected
                      /\ call' = [call EXCEPT !.returned = TRUE,
                                    !.output = [location |-> existingLocation, created |-> FALSE,
                                                findRejected |-> findRejected]]
                      /\ UNCHANGED locations
                 ELSE IF createRejected
                 THEN /\ call' = [call EXCEPT !.returned = TRUE,
                                    !.output = [error |-> StoreFailure,
                                                findRejected |-> findRejected]]
                      /\ UNCHANGED locations
                 ELSE IF LocationsByCode(locationCode) # {}
                 THEN /\ call' = [call EXCEPT !.returned = TRUE,
                                    !.output = [error |-> UniqueViolation,
                                                findRejected |-> findRejected]]
                      /\ UNCHANGED locations
                 ELSE /\ locations' = Append(locations,
                            [location_code |-> locationCode,
                             name          |-> "Location " \o locationCode,
                             address       |-> Null])
                      /\ call' = [call EXCEPT !.returned = TRUE,
                                    !.output = [location |-> Len(locations) + 1, created |-> TRUE,
                                                findRejected |-> findRejected]]
    /\ UNCHANGED <<products, inventory, sales_transactions, data_imports,
                   req, mode, hist, initial>>

\* validateVendorARow of the import script (src/unnamed/part_000, lines 48-65):
\* the message thrown for the first required field that is missing, "" when
\* the row passes
validateVendorARow(row) ==
    LET missing == {k \in 1..Len(VendorAFields) :
                       VendorAFields[k] \notin DOMAIN row \/ Trim(row[VendorAFields[k]]) = ""}
    IN  IF missing = {} THEN ""
        ELSE "Missing required field: "
                \o VendorAFields[CHOOSE k \in missing : \A j \in missing : k <= j]

Call_validateVendorARow ==
    /\ call.fn = "CSVProcessorService.validateVendorARow"
    /\ Returns(ValidateRowMessage(call.input, VendorAFields))

Call_Script_validateVendorARow ==
    /\ call.fn = "validateVendorARow"
    /\ Returns(validateVendorARow(call.input))

\* CSVProcessor.parseDate, lines 95-106: the same two forms, and its own
\* error for any other value
CSVProcessor_parseDate(dateStr) ==
    IF Includes(dateStr, "/")
    THEN LET parts == SplitSlash(dateStr)
             month == parts[1]
             day   == parts[2]
             year  == IF Len(parts) >= 3 THEN parts[3] ELSE "undefined"
         IN [ok |-> TRUE, value |-> year \o "-" \o PadStart2(month) \o "-" \o PadStart2(day)]
    ELSE IF Includes(dateStr, "-")
    THEN [ok |-> TRUE, value |-> dateStr]
    ELSE [ok |-> FALSE, message |-> "Invalid date format: " \o dateStr]

Call_parseDate ==
    /\ call.fn = "CSVProcessorService.parseDate"
    /\ Returns(parseDate(call.input))

Call_CSVProcessor_parseDate ==
    /\ call.fn = "CSVProcessor.parseDate"
    /\ Returns(CSVProcessor_parseDate(call.input))

Call_parsePrice ==
    /\ call.fn = "CSVProcessorService.parsePrice"
    /\ Returns(parsePrice(call.input))

Call_parseCSVLine ==
    /\ call.fn = "parseCSVLine"
    /\ Returns(parseCSVLine(call.input))

CallNext ==
    \/ Call_parseCSVLine
    \/ Call_parsePrice
    \/ Call_parseDate
    \/ Call_CSVProcessor_parseDate
    \/ Call_validateVendorARow
    \/ Call_Script_validateVendorARow
    \/ Call_categorizeProduct
    \/ Call_CSVProcessor_categorizeProduct
    \/ Call_LocationService_findOrCreateByCode

CallSpec == CallInit /\ [][CallNext]_vars

(***************************************************************************)
(* Properties.                                                             *)
(***************************************************************************)
Finished(u) == req[u].pc = "done"
Succeeded(u) == Finished(u) /\ req[u].response.success

\* the batch of request u has been through its loop
Ended(u) == Succeeded(u) \/ req[u].pc = "returned"

\* the request is inside the per-row loop, or has just left it
InLoop(u) ==
    req[u].pc \in {"loop", "find_location", "insert_location", "find_product",
                   "insert_product", "create_sale", "ensure_inventory",
                   "insert_inventory", "fetch_inventory", "write_inventory",
                   "update_import",
                   "legacy_loop", "legacy_find_location", "legacy_insert_location",
                   "legacy_find_product", "legacy_insert_product", "legacy_insert_sale",
                   "legacy_fetch_inventory", "legacy_write_inventory", "returned"}

\* the rows of a file with a blank required column
BlankRows(rows, fields) == {i \in 1..Len(rows) : Len(MissingFields(rows[i], fields)) > 0}

\* the messages of a result that name row n
MessagesOf(errors, n) ==
    {k \in 1..Len(errors) : StartsWith(errors[k], "Row " \o NatStr(n) \o ": ")}

\* the rows of hist[u] that ended as processed on inventory row i
ProcessedOn(u, i) ==
    {k \in 1..Len(hist[u]) :
        hist[u][k].outcome = "processed" /\ hist[u][k].trace.inventoryId = i}

\* a request that ran alone, with no store operation rejected
Undisturbed == mode = "single" /\ faults = 0

\* C1: partial failure.  A request that ran alone with every store operation
\* succeeding, on a file of N data rows of which exactly the rows of F have a
\* blank required column (the others normalize), ends with processed = N - |F|,
\* failed = |F|, one message per row of F naming its 1-based index, and a sale
\* and a stock write recorded for every row outside F.
C1_PartialFailure ==
    \A u \in Requests :
        LET csv    == req[u].csvContent
            fields == ExpectedHeaders(req[u].dataSource)
            parsed == parseCSVFile(csv)
        IN  (/\ Finished(u)
             /\ Undisturbed
             /\ ~IsEmptyContent(csv)
             /\ parsed.ok
             /\ MissingHeaders(parsed.rows[1], fields) = {}
             /\ \A i \in (1..Len(parsed.rows)) \ BlankRows(parsed.rows, fields) :
                    NormalizeRow(parsed.rows[i], fields).ok)
            => LET N == Len(parsed.rows)
                   F == BlankRows(parsed.rows, fields)
                   response == req[u].response
               IN  /\ response.success
                   /\ response.processed = N - Cardinality(F)
                   /\ response.failed = Cardinality(F)
                   /\ Len(response.errors) = Cardinality(F)
                   /\ \A i \in F : Cardinality(MessagesOf(response.errors, i)) = 1
                   /\ \A i \in (1..N) \ F :
                        \E k \in 1..Len(hist[u]) :
                            /\ hist[u][k].row = i
                            /\ hist[u][k].outcome = "processed"
                            /\ hist[u][k].trace.sale \in 1..Len(sales_transactions)
                            /\ hist[u][k].trace.written =
                                   Max2(0, hist[u][k].trace.read - 1)

\* C2: in every reachable state every inventory row has current_stock >= 0.
C2_StockNeverNegative ==
    \A i \in 1..Len(inventory) : inventory[i].current_stock >= 0

\* two successive adjustments of a row whose stock is 0 both leave it at 0
C2_ZeroStaysZero ==
    \E u \in Requests : \E j, k \in 1..Len(hist[u]) :
        /\ j < k
        /\ hist[u][j].outcome = "processed" /\ hist[u][k].outcome = "processed"
        /\ hist[u][j].trace.inventoryId = hist[u][k].trace.inventoryId
        /\ hist[u][j].trace.read = 0 /\ hist[u][j].trace.written = 0
        /\ hist[u][k].trace.read = 0 /\ hist[u][k].trace.written = 0
        /\ inventory[hist[u][k].trace.inventoryId].current_stock = 0

\* the locations that carry one of the two forms of the site code
SiteLocations == {i \in 1..Len(locations) : locations[i].location_code \in {"2.0_SW_02", "SW_02"}}

\* C3: prefix-insensitive resolution.  From a store that holds neither form of
\* the code, a two-row batch "2.0_SW_02" then "SW_02" with one UPC (batch
\* alone, store operations succeeding, through the service or through
\* CSVProcessor) resolves both rows to one location, decrements one inventory
\* row twice, and leaves exactly one location and one inventory row for them.
C3_PrefixInsensitive ==
    \A u \in Requests :
        LET rows   == req[u].rows
            fields == ExpectedHeaders(req[u].dataSource)
        IN  (/\ Ended(u)
             /\ ~overlap
             /\ faults = 0
             /\ \A i \in 1..Len(initial.locations) :
                    initial.locations[i].location_code \notin {"2.0_SW_02", "SW_02"}
             /\ Len(rows) = 2
             /\ rows[1][fields[1]] = "2.0_SW_02"
             /\ rows[2][fields[1]] = "SW_02"
             /\ rows[1][fields[3]] = rows[2][fields[3]]
             /\ NormalizeRow(rows[1], fields).ok
             /\ NormalizeRow(rows[2], fields).ok)
            => /\ Len(hist[u]) = 2
               /\ hist[u][1].outcome = "processed"
               /\ hist[u][2].outcome = "processed"
               /\ hist[u][1].trace.location = hist[u][2].trace.location
               /\ hist[u][1].trace.inventoryId = hist[u][2].trace.inventoryId
               /\ hist[u][2].trace.read = hist[u][1].trace.written
               /\ Cardinality(SiteLocations) = 1
               /\ Cardinality({i \in 1..Len(inventory) :
                      /\ inventory[i].location_id \in SiteLocations
                      /\ products[inventory[i].product_id].upc = rows[1][fields[3]]}) = 1

\* the rows of request u that reached location resolution, the row in hand last
Resolutions(u) ==
    LET all == [k \in 1..Len(hist[u]) |-> hist[u][k].trace]
               \o (IF req[u].pc \in {"find_product", "insert_product", "create_sale",
                                     "ensure_inventory", "insert_inventory",
                                     "fetch_inventory", "write_inventory"}
                   THEN <<req[u].trace>> ELSE <<>>)
    IN  all

\* C4: location resolution is idempotent.  With the request alone and every
\* store operation succeeding, a row whose code an earlier row of the batch
\* resolved gets the same location id, by the lookup alone: it inserts nothing,
\* and the table grows by exactly the rows the first resolutions inserted.
C4_LocationIdempotent ==
    Undisturbed =>
        \A u \in Requests :
            LET res == Resolutions(u) IN
            /\ \A j, k \in 1..Len(res) :
                  (j < k /\ res[j].locationCode # ""
                         /\ res[j].locationCode = res[k].locationCode)
                  => /\ res[j].location # 0
                     /\ res[k].location = res[j].location
                     /\ ~res[k].locationInserted
            /\ (\A v \in Requests \ {u} : req[v].pc = "idle")
                  => Len(locations) = Len(initial.locations)
                        + Cardinality({k \in 1..Len(res) : res[k].locationInserted})

\* a second row found, by lookup, the location that the first row had inserted
C4_SecondIsLookup ==
    /\ Undisturbed
    /\ \E u \in Requests : \E j, k \in 1..Len(hist[u]) :
          /\ j < k
          /\ hist[u][j].trace.locationInserted
          /\ hist[u][k].trace.locationCode = hist[u][j].trace.locationCode
          /\ hist[u][k].trace.location = hist[u][j].trace.location
          /\ ~hist[u][k].trace.locationInserted

\* the file is empty after trimming, or has fewer than 2 lines
Malformed(csvContent) == IsEmptyContent(csvContent) \/ Len(TrimmedLines(csvContent)) < 2

\* C5: whole-batch rejection.  A request whose file is empty after trimming or
\* has fewer than 2 lines is answered at once with a 400 error: it handles no
\* row, creates no data-import record, and (alone) leaves every table as found.
C5_WholeBatchRejection ==
    \A u \in Requests :
        (req[u].pc # "idle" /\ Malformed(req[u].csvContent))
        => /\ Finished(u)
           /\ ~req[u].response.success
           /\ req[u].response.status = 400
           /\ req[u].importId = 0
           /\ hist[u] = <<>>
           /\ req[u].results = NoResults
           /\ mode # "overlap" =>
                 /\ locations = initial.locations
                 /\ products = initial.products
                 /\ inventory = initial.inventory
                 /\ sales_transactions = <<>>
                 /\ data_imports = <<>>

\* a header line followed by a blank line only was rejected
C5_HeaderOnlyRejected ==
    \E u \in Requests :
        /\ Finished(u)
        /\ Len(req[u].csvContent) = 2
        /\ Len(TrimmedLines(req[u].csvContent)) = 1
        /\ req[u].response.status = 400

\* the number of data rows of a file: its lines after the header that are not blank
DataLineCount(csvContent) ==
    LET lines == TrimmedLines(csvContent) IN
    Cardinality({i \in 2..Len(lines) : Trim(lines[i]) # ""})

\* C6: result accounting.  At every point of the loop processed + failed is the
\* number of rows handled and errors has one entry per failed row; the totals
\* reported at the end add up to the number of data rows, reported as total.
C6_ResultAccounting ==
    \A u \in Requests :
        /\ InLoop(u) =>
              /\ req[u].results.processed + req[u].results.failed = req[u].index
              /\ Len(req[u].results.errors) = req[u].results.failed
              /\ Len(hist[u]) = req[u].index
              /\ req[u].index <= Len(req[u].rows)
        /\ Succeeded(u) =>
              /\ req[u].response.processed + req[u].response.failed = req[u].response.total
              /\ Len(req[u].response.errors) = req[u].response.failed
              /\ req[u].response.total = DataLineCount(req[u].csvContent)

\* a batch ended with rows of both kinds counted
C6_MixedBatch ==
    \E u \in Requests :
        /\ Succeeded(u)
        /\ req[u].response.processed > 0
        /\ req[u].response.failed > 0

IsFailed(h) == h.outcome = "failed"

\* C7: row messages.  The rows are handled in file order, and errors holds, in
\* that order, exactly one message "Row n: <error>" per failed row, n being the
\* row's 1-based position among the data rows; so with the index-based
\* numbering of the service and with the counter-based one of CSVProcessor.
C7_RowMessages ==
    \A u \in Requests :
        LET failedRows == SelectSeq(hist[u], IsFailed)
            errors     == req[u].results.errors
        IN  /\ \A k \in 1..Len(hist[u]) : hist[u][k].row = k
            /\ Len(errors) = Len(failedRows)
            /\ \A j \in 1..Len(errors) :
                  errors[j] = "Row " \o NatStr(failedRows[j].row) \o ": " \o failedRows[j].message
            /\ \A j \in 1..(Len(errors) - 1) : failedRows[j].row < failedRows[j + 1].row

\* CSVProcessor numbered a failed row that followed a processed one
C7_CounterAfterProcessed ==
    /\ legacy
    /\ Len(hist[1]) = 2
    /\ hist[1][1].outcome = "processed"
    /\ hist[1][2].outcome = "failed"
    /\ Len(req[1].results.errors) = 1
    /\ StartsWith(req[1].results.errors[1], "Row 2: ")

\* C8: the adjustment is atomic.  Two overlapping requests that each process
\* one row on the same existing inventory row of stock s >= 2 leave s - 2.
C8_AtomicAdjustment ==
    (/\ mode = "overlap"
     /\ \A u \in Requests :
           /\ Succeeded(u)
           /\ Len(hist[u]) = 1
           /\ hist[u][1].outcome = "processed"
     /\ hist[1][1].trace.inventoryId = hist[2][1].trace.inventoryId
     /\ hist[1][1].trace.inventoryId \in 1..Len(initial.inventory)
     /\ initial.inventory[hist[1][1].trace.inventoryId].current_stock >= 2)
    => inventory[hist[1][1].trace.inventoryId].current_stock
          = initial.inventory[hist[1][1].trace.inventoryId].current_stock - 2

\* C9: seed stock.  An inventory row that a batch created (through the service
\* or through CSVProcessor) has min_stock 5 and max_stock 50; it holds 25 until
\* a row is processed on it, some processed row read 25 and wrote 24, and after
\* exactly one processed row it holds 24.
C9_SeedStock ==
    \A i \in (Len(initial.inventory) + 1)..Len(inventory) :
        LET W == UNION {{<<u, k>> : k \in ProcessedOn(u, i)} : u \in Requests} IN
        /\ inventory[i].min_stock = 5
        /\ inventory[i].max_stock = 50
        /\ W = {} => inventory[i].current_stock = 25
        /\ W # {} => \E w \in W : /\ hist[w[1]][w[2]].trace.read = 25
                                  /\ hist[w[1]][w[2]].trace.written = 24
        /\ Cardinality(W) = 1 => inventory[i].current_stock = 24

\* a row seeded an inventory row and was processed on it, leaving 24
C9_SeededThenDecremented ==
    \E u \in Requests : \E k \in 1..Len(hist[u]) :
        /\ hist[u][k].outcome = "processed"
        /\ hist[u][k].trace.seeded
        /\ hist[u][k].trace.inventoryId > Len(initial.inventory)
        /\ inventory[hist[u][k].trace.inventoryId].current_stock = 24

\* the value that the processed rows of a request running alone left in row i
ExpectedStock(u, i) ==
    LET W == ProcessedOn(u, i) IN
    IF W = {}
    THEN IF i <= Len(initial.inventory) THEN initial.inventory[i].current_stock ELSE 25
    ELSE hist[u][CHOOSE k \in W : \A m \in W : m <= k].trace.written

\* a row that failed after its sale was inserted
FailedAfterSale(u, k) == hist[u][k].outcome = "failed" /\ hist[u][k].trace.sale # 0

\* C10: no rollback.  A row that fails in the inventory step after its sale was
\* inserted is counted as failed with one message, its sale stays in the store,
\* no stock is written for it (with the request alone, every stock is what the
\* processed rows left), and the loop goes on to handle every later row.
C10_NoRollback ==
    \A u \in Requests :
        /\ \A k \in 1..Len(hist[u]) :
              FailedAfterSale(u, k) =>
                 LET h == hist[u][k] IN
                 /\ h.row = k
                 /\ req[u].results.failed >= 1
                 /\ Cardinality(MessagesOf(req[u].results.errors, k)) = 1
                 /\ h.trace.sale \in 1..Len(sales_transactions)
                 /\ sales_transactions[h.trace.sale].location_id = h.trace.location
                 /\ sales_transactions[h.trace.sale].product_id = h.trace.product
                 /\ h.trace.written = -1
                 /\ Succeeded(u) => Len(hist[u]) = Len(req[u].rows)
        /\ (mode = "single" /\ u = 1) =>
              \A i \in 1..Len(inventory) : inventory[i].current_stock = ExpectedStock(u, i)

\* a row failed after its sale was inserted, and the next row was processed
C10_SaleWithoutDecrement ==
    \E u \in Requests : \E k \in 1..Len(hist[u]) :
        /\ FailedAfterSale(u, k)
        /\ k < Len(hist[u])
        /\ hist[u][k + 1].outcome = "processed"
        /\ hist[u][k].trace.sale \in 1..Len(sales_transactions)

\* the location code of data row k of request u, as the file supplied it
SuppliedCode(u, k) == req[u].rows[k][ExpectedHeaders(req[u].dataSource)[1]]

\* the two forms under which the store may hold a supplied code
CodeForms(code) == {code, NormalizedCode(code)}

\* C11: reuse of either form.  With the batch alone and every store operation
\* succeeding, a row that reaches location resolution ends it with a location
\* whose code is the supplied code or the supplied code without "2.0_"; that
\* location is one the row inserted only when no location that was in the
\* store before it carries either form (the store holding only the prefixed
\* form, or both forms, included).
C11_ReuseEitherForm ==
    (~overlap /\ faults = 0) =>
        \A u \in Requests : \A k \in 1..Len(hist[u]) :
            LET t     == hist[u][k].trace
                forms == CodeForms(SuppliedCode(u, k))
            IN  t.locationCode # "" =>
                   /\ t.location \in 1..Len(locations)
                   /\ locations[t.location].location_code \in forms
                   /\ t.locationInserted =>
                         \A i \in 1..(t.location - 1) : locations[i].location_code \notin forms

\* C12: a created location is as supplied.  A location that a row inserted
\* carries the code exactly as the row supplied it (with "2.0_" when the row
\* has it), the name "Location " + code and the address
\* "Auto-created from <dataSource> data".
C12_CreatedAsSupplied ==
    \A u \in Requests : \A k \in 1..Len(hist[u]) :
        LET t == hist[u][k].trace IN
        t.locationInserted =>
            locations[t.location] =
                [location_code |-> SuppliedCode(u, k),
                 name          |-> "Location " \o SuppliedCode(u, k),
                 address       |-> "Auto-created from " \o req[u].dataSource \o " data"]

\* C13: the data-import record.  The record of a request is created as
\* "processing" with zero counts and total_rows = the number of data rows, it
\* stays so while the request runs (no per-row update), and once the request
\* has returned the record has a terminal status and counts that add up to
\* total_rows.
C13_ImportUpdatedOnce ==
    \A u \in Requests :
        req[u].importId # 0 =>
            LET d == data_imports[req[u].importId] IN
            /\ d.total_rows = Len(req[u].rows)
            /\ ~Finished(u) => /\ d.status = "processing"
                               /\ d.processed_rows = 0
                               /\ d.failed_rows = 0
            /\ Finished(u) => /\ d.status \in {"completed", "failed"}
                              /\ d.processed_rows + d.failed_rows = d.total_rows

\* the rows of request u that lost the insert of their location: they reached
\* location resolution and left it without a location
LostLocation(u) ==
    {k \in 1..Len(hist[u]) :
        hist[u][k].trace.locationCode # "" /\ hist[u][k].trace.location = 0}

\* the rows, handled or in hand, that have inserted a sale
SalesOf(u) ==
    {k \in 1..Len(Resolutions(u)) : Resolutions(u)[k].sale # 0}

\* C14: the location race.  With two overlapping requests, no two locations
\* ever carry the same code; a row whose insert lost to the uniqueness
\* constraint is recorded as failed with no sale, the winner's location is in
\* the store, failed counts exactly the failed rows and processed the
\* processed ones, and the sales are exactly those of the rows that got
\* past resolution.
C14_LocationRace ==
    overlap =>
        /\ \A i, j \in 1..Len(locations) :
              locations[i].location_code = locations[j].location_code => i = j
        /\ \A u \in Requests :
              /\ \A k \in LostLocation(u) :
                    /\ hist[u][k].outcome = "failed"
                    /\ hist[u][k].trace.sale = 0
                    /\ ~hist[u][k].trace.locationInserted
                    /\ Cardinality(LocationsByCode(hist[u][k].trace.locationCode)) = 1
              /\ InLoop(u) =>
                    /\ req[u].results.failed = Len(SelectSeq(hist[u], IsFailed))
                    /\ req[u].results.processed = Len(hist[u]) - Len(SelectSeq(hist[u], IsFailed))
        /\ Len(sales_transactions) = Cardinality(SalesOf(1)) + Cardinality(SalesOf(2))

\* one request's row lost the insert of a code that the other request's row inserted
C14_LoserFailed ==
    /\ overlap
    /\ \E u, v \in Requests : \E k \in LostLocation(u) : \E m \in 1..Len(hist[v]) :
          /\ u # v
          /\ hist[v][m].trace.locationInserted
          /\ hist[v][m].trace.locationCode = hist[u][k].trace.locationCode
          /\ req[u].results.failed = 1
          /\ req[u].results.processed = 0

\* C15: run to completion.  A request that enters the per-row loop eventually
\* leaves it with a result, having handled every data row exactly once in file
\* order (processed + failed = the number of rows), whichever rows failed.
C15_RunToCompletion ==
    \A u \in Requests :
        (req[u].pc = "loop" /\ req[u].index = 0)
        ~> (/\ req[u].pc = "update_import"
            /\ Len(hist[u]) = Len(req[u].rows)
            /\ \A k \in 1..Len(hist[u]) : hist[u][k].row = k
            /\ req[u].results.processed + req[u].results.failed = Len(req[u].rows))

\* the loop returned its result after a first row that failed and a second that did not
C15_LoopSurvivedFailure ==
    \E u \in Requests :
        /\ req[u].pc = "update_import"
        /\ Len(req[u].rows) = 2
        /\ Len(hist[u]) = 2
        /\ hist[u][1].outcome = "failed"
        /\ hist[u][2].outcome = "processed"

\* C16: one inventory row per pair.  In every reachable state, whether the
\* requests ran one after the other or overlapped, no two inventory rows carry
\* the same (location_id, product_id); a row that a batch seeded is the only
\* row of its pair, and a row whose insert the store rejected left no stock row
\* behind.
C16_OneRowPerPair ==
    /\ \A i, j \in 1..Len(inventory) :
          (/\ inventory[i].location_id = inventory[j].location_id
           /\ inventory[i].product_id = inventory[j].product_id) => i = j
    /\ \A u \in Requests : \A k \in 1..Len(hist[u]) :
          LET t == hist[u][k].trace IN
          (t.sale # 0 /\ t.location # 0 /\ t.product # 0 /\ faults = 0)
          => Cardinality(InventoryByPair(t.location, t.product)) = 1

\* of two overlapping requests that found no row for a pair, one inserted it
\* and the other's insert was rejected
C16_SecondInsertRejected ==
    /\ overlap
    /\ \E u, v \in Requests : \E k \in 1..Len(hist[u]) : \E m \in 1..Len(hist[v]) :
          /\ u # v
          /\ hist[v][m].trace.seeded
          /\ hist[u][k].outcome = "failed"
          /\ hist[u][k].trace.sale # 0
          /\ ~hist[u][k].trace.seeded
          /\ hist[u][k].trace.location = hist[v][m].trace.location
          /\ hist[u][k].trace.product = hist[v][m].trace.product
          /\ Cardinality(InventoryByPair(hist[u][k].trace.location, hist[u][k].trace.product)) = 1

\* the categories and their keywords, in the order of precedence
CategoryKeywords ==
    <<[category |-> "Energy Drinks",  keywords |-> {"celsius", "red bull", "monster"}],
      [category |-> "Protein Drinks", keywords |-> {"muscle milk", "protein"}],
      [category |-> "Soft Drinks",    keywords |-> {"coke", "pepsi", "sprite", "cola"}],
      [category |-> "Candy",          keywords |-> {"snickers", "candy", "chocolate"}],
      [category |-> "Snacks",         keywords |-> {"doritos", "lays", "chips", "crackers"}]>>

Categories == {CategoryKeywords[g].category : g \in 1..Len(CategoryKeywords)} \cup {"Other"}

\* the category of the first group one of whose keywords the name contains,
\* letter case aside; "Other" when there is none
FirstMatch(name) ==
    LET hits == {g \in 1..Len(CategoryKeywords) :
                    \E k \in CategoryKeywords[g].keywords : Includes(ToLower(name), k)}
    IN  IF hits = {} THEN "Other"
        ELSE CategoryKeywords[CHOOSE g \in hits : \A h \in hits : g <= h].category

\* C17: classification.  Each categorizeProduct (of the service and of
\* CSVProcessor) returns, for every name, a category of the closed set: that of
\* the first keyword group matching the name case-insensitively, else "Other".
C17_Classification ==
    (call.returned /\ call.fn \in ClassifierNames) =>
        /\ call.output \in Categories
        /\ call.output = FirstMatch(call.input)

\* the product name of data row k of request u, as the file supplied it
SuppliedName(u, k) == Trim(req[u].rows[k][ExpectedHeaders(req[u].dataSource)[2]])

\* the products that were in the store when row k of a request running alone
\* resolved its product: those it found at the start and those that its
\* earlier rows inserted
ProductsBefore(u, k) ==
    1..(Len(initial.products)
          + Cardinality({j \in 1..(k - 1) : hist[u][j].trace.productInserted}))

ProductService_FlavorWords == {"vanilla", "berry", "arctic", "classic", "original"}

\* ProductService.normalizeProductName:
\* name.replace(/\s+(Vanilla|Berry|Arctic|Classic|Original).*$/i, "").trim().toLowerCase()
ProductService_normalizeProductName(name) ==
    LET lower == ToLower(name)
        hits  == {i \in 1..Len(name) :
                     /\ Char(name, i) = " "
                     /\ \E w \in ProductService_FlavorWords :
                           StartsWith(TrimStart(SubSeq(lower, i, Len(lower))), w)}
    IN  ToLower(Trim(IF hits = {} THEN name
                     ELSE SubSeq(name, 1, (CHOOSE i \in hits : \A j \in hits : i <= j) - 1)))

\* ProductService.findOrCreateByUPC, the search .ilike("name", `%${normalizedName}%`):
\* the existing product's name contains the candidate name without its
\* trailing flavor qualifier, letter case aside
FuzzyMatch(existingName, candidateName) ==
    Includes(ToLower(existingName), ProductService_normalizeProductName(candidateName))

\* C18: product resolution in three phases.  With the request alone and every
\* store operation succeeding, a row that resolved its product got a product
\* with its UPC when the store held one; failing that, the first product whose
\* name fuzzily matches; and a product it inserted (with the supplied UPC and
\* name and the keyword category) only when the store held neither.
C18_ThreePhases ==
    Undisturbed =>
        \A u \in Requests : \A k \in 1..Len(hist[u]) :
            LET t      == hist[u][k].trace
                name   == SuppliedName(u, k)
                before == ProductsBefore(u, k)
                exact  == {i \in before : products[i].upc = t.upc}
                fuzzy  == {i \in before : FuzzyMatch(products[i].name, name)}
            IN  t.product # 0 =>
                   /\ exact # {} => t.product \in exact
                   /\ (exact = {} /\ fuzzy # {}) =>
                         t.product = CHOOSE i \in fuzzy : \A j \in fuzzy : i <= j
                   /\ t.productInserted <=> (exact = {} /\ fuzzy = {})
                   /\ t.productInserted =>
                         products[t.product] =
                             [name |-> name, upc |-> t.upc, category |-> FirstMatch(name)]

\* what row k of request u has resolved and written so far: the record of a
\* row that was handled, or the record of the row in hand
RowTrace(u, k) ==
    IF k <= Len(hist[u]) THEN hist[u][k].trace
    ELSE IF req[u].pc \notin {"idle", "done"} /\ k = req[u].index + 1 THEN req[u].trace
    ELSE NoTrace

\* C19: every sales transaction that the upload pipeline (the route and
\* CSVProcessorService) has in the store was inserted by a row of an upload
\* and carries quantity_sold 1, that upload's data-source tag, the unit price,
\* total and sale date parsed from that row, and the ids of the location and
\* the product that the row resolved before the insert, both of which are in
\* the store.
C19_SaleRecord ==
    ~legacy =>
    \A s \in 1..Len(sales_transactions) :
        \E u \in Requests : \E k \in 1..Len(req[u].rows) :
            LET t      == RowTrace(u, k)
                row    == req[u].rows[k]
                fields == ExpectedHeaders(req[u].dataSource)
                sale   == sales_transactions[s]
            IN  /\ t.sale = s
                /\ sale.quantity_sold = 1
                /\ sale.data_source = req[u].dataSource
                /\ parsePrice(row[fields[5]]).ok
                /\ sale.unit_price = parsePrice(row[fields[5]]).value
                /\ parsePrice(row[fields[6]]).ok
                /\ sale.total_amount = parsePrice(row[fields[6]]).value
                /\ parseDate(row[fields[4]]).ok
                /\ sale.sale_date = parseDate(row[fields[4]]).value
                /\ t.location \in 1..Len(locations)
                /\ sale.location_id = t.location
                /\ t.product \in 1..Len(products)
                /\ sale.product_id = t.product

\* a vendor_a upload has appended a sale whose unit price and total differ,
\* for a location and a product that the same row inserted
C19_SaleOfCreatedPair ==
    \E u \in Requests : \E k \in 1..Len(hist[u]) :
        LET t == hist[u][k].trace IN
        /\ mode = "single"
        /\ req[u].dataSource = "vendor_a"
        /\ t.sale # 0
        /\ t.locationInserted /\ t.productInserted
        /\ sales_transactions[t.sale].unit_price # sales_transactions[t.sale].total_amount
        /\ sales_transactions[t.sale].sale_date = "2025-06-09"

\* the positions at which a request is about to insert a sale
SaleSteps == {"create_sale", "legacy_insert_sale"}

\* the rows of request u that have appended a sale
RowsWithSale(u) == {k \in 1..Len(req[u].rows) : RowTrace(u, k).sale # 0}

\* C20: sales transactions are append-only and never retried.  Every step
\* leaves the existing sales transactions as they were and appends at most
\* one; a sale is appended only by a request standing at its insert, which
\* then goes on with the same row, and a request whose insert fails goes to
\* the next row with nothing appended; a request reaches the insert of a row
\* with no sale yet written for it.  So the rows of a batch append sales of
\* their own, at most one each: at most as many as the batch has rows and at
\* least as many as it has counted processed.
C20_AppendOnly ==
    [][/\ Len(sales_transactions') \in {Len(sales_transactions), Len(sales_transactions) + 1}
       /\ SubSeq(sales_transactions', 1, Len(sales_transactions)) = sales_transactions
       /\ Len(sales_transactions') > Len(sales_transactions) =>
             \E u \in Requests : req[u].pc \in SaleSteps /\ req'[u] # req[u]
       /\ \A u \in Requests :
             /\ (req[u].pc \in SaleSteps /\ req'[u] # req[u]) =>
                   \/ /\ req'[u].pc \notin SaleSteps
                      /\ req'[u].index = req[u].index
                      /\ req'[u].trace.sale = Len(sales_transactions')
                      /\ Len(sales_transactions') = Len(sales_transactions) + 1
                   \/ /\ req'[u].index = req[u].index + 1
                      /\ sales_transactions' = sales_transactions
             /\ (req'[u].pc \in SaleSteps /\ req[u].pc \notin SaleSteps) =>
                   /\ req'[u].index = req[u].index
                   /\ req[u].trace.sale = 0
                   /\ req'[u].index + 1 \notin RowsWithSale(u)
             /\ req[u].pc # "idle" => req'[u].index >= req[u].index
             /\ \A j, k \in RowsWithSale(u)' :
                   j # k => RowTrace(u, j)'.sale # RowTrace(u, k)'.sale
             /\ req'[u].results.processed <= Cardinality(RowsWithSale(u)')
             /\ Cardinality(RowsWithSale(u)') <= Len(req'[u].rows)
       /\ \A u, v \in Requests : \A j \in RowsWithSale(u)', k \in RowsWithSale(v)' :
             u # v => RowTrace(u, j)'.sale # RowTrace(v, k)'.sale
      ]_vars

\* a batch of two rows has finished with one row counted processed and the
\* other failed after its sale was appended: two sales for two rows, one more
\* than the processed count
C20_SaleOfFailedRow ==
    \E u \in Requests :
        /\ mode = "single"
        /\ Finished(u)
        /\ Len(req[u].rows) = 2
        /\ req[u].results.processed = 1
        /\ Len(sales_transactions) = 2
        /\ \E k \in 1..2 : hist[u][k].outcome = "failed" /\ hist[u][k].trace.sale # 0

\* C21: a lookup that the store rejects fails the row.  When the lookup of
\* LocationService.findOrCreateByCode was rejected with an error other than
\* "no rows found", the call throws that error: it returns no location and
\* leaves the locations as they were, with no insert attempted.
C21_LookupErrorFailsRow ==
    (call.fn = "LocationService.findOrCreateByCode" /\ call.returned
        /\ call.output.findRejected) =>
        /\ "error" \in DOMAIN call.output
        /\ call.output.error = StoreFailure
        /\ locations = initial.locations

\* the required columns of the format that are blank in the row, in schema
\* order, separated by ", "
BlankColumns(row, fields) ==
    LET list[k \in 0..Len(fields)] ==
            IF k = 0 THEN ""
            ELSE IF Trim(row[fields[k]]) # ""
            THEN list[k - 1]
            ELSE IF list[k - 1] = "" THEN fields[k]
            ELSE list[k - 1] \o ", " \o fields[k]
    IN  list[Len(fields)]

\* C22: a row with blank required columns fails with one error that names
\* every missing column of the format in schema order; a row without one
\* passes.  Each validateVendorARow (of the service and of the import script)
\* throws, for every row, the message built from all the blank columns.
C22_MissingColumnsAccumulated ==
    (call.returned /\ call.fn \in {"CSVProcessorService.validateVendorARow", "validateVendorARow"}) =>
        LET blank == BlankColumns(call.input, VendorAFields) IN
        call.output = IF blank = "" THEN ""
                      ELSE "Missing required fields: " \o blank

\* the positions of the "/" characters of a value
Slashes(value) == {i \in 1..Len(value) : Char(value, i) = "/"}

\* the part of a value between its (k-1)th and its kth "/", for k from 1 to
\* the number of "/" plus one
SlashPart(value, k) ==
    LET before == {i \in Slashes(value) : Cardinality({j \in Slashes(value) : j <= i}) = k - 1}
        after  == {i \in Slashes(value) : Cardinality({j \in Slashes(value) : j <= i}) = k}
        first  == IF before = {} THEN 1 ELSE (CHOOSE i \in before : TRUE) + 1
        last   == IF after = {} THEN Len(value) ELSE (CHOOSE i \in after : TRUE) - 1
    IN  SubSeq(value, first, last)

\* C23: date parsing.  Each parseDate (of the service and of CSVProcessor)
\* turns every value containing "/" into its third "/"-separated part, "-",
\* its first part and "-" its second part, the first and the second padded
\* on the left with "0" to two characters; returns a value with "-" and no "/"
\* unchanged; and fails for a value with neither.
C23_DateParsing ==
    (call.returned /\ call.fn \in DateParsers) =>
        LET value == call.input IN
        IF Slashes(value) # {}
        THEN /\ call.output.ok
             /\ Cardinality(Slashes(value)) >= 2
             /\ call.output.value =
                   SlashPart(value, 3) \o "-" \o PadStart2(SlashPart(value, 1))
                                       \o "-" \o PadStart2(SlashPart(value, 2))
        ELSE IF Includes(value, "-")
        THEN call.output.ok /\ call.output.value = value
        ELSE ~call.output.ok

\* the characters of a value that are digits, "." or "-", in their order
NumericCharacters(value) ==
    LET kept[k \in 0..Len(value)] ==
            IF k = 0 THEN ""
            ELSE IF Char(value, k) \in {"0", "1", "2", "3", "4", "5", "6", "7", "8", "9", ".", "-"}
            THEN kept[k - 1] \o Char(value, k)
            ELSE kept[k - 1]
    IN  kept[Len(value)]

\* an amount that is a number and is not below zero
ValidAmount(n) == ~n.nan /\ ~(n.neg /\ (n.units > 0 \/ n.frac # ""))

\* C24: price parsing.  parsePrice removes every character that is not a
\* digit, "." or "-" and parses the rest as a decimal; it fails when that is
\* not a number or is negative ("abc" and "-1.00" fail) and otherwise returns
\* the value ("$3.50" gives 3.50); and no sales transaction in the store has
\* a unit price or a total that is not a number or is negative.
C24_PriceParsing ==
    /\ (call.returned /\ call.fn = "CSVProcessorService.parsePrice") =>
          LET decimal == parseFloat(NumericCharacters(call.input)) IN
          /\ call.output.ok <=> ValidAmount(decimal)
          /\ call.output.ok => call.output.value = decimal
          /\ call.input \in {"abc", "-1.00"} => ~call.output.ok
          /\ call.input = "$3.50" =>
                call.output.value = [nan |-> FALSE, neg |-> FALSE, units |-> 3, frac |-> "5"]
    /\ \A s \in 1..Len(sales_transactions) :
          /\ ValidAmount(sales_transactions[s].unit_price)
          /\ ValidAmount(sales_transactions[s].total_amount)

\* what each character of a line is, reading from the left: a quote that
\* opens or closes a quoted stretch ("delimiter"), the first quote of a
\* doubled quote inside a quoted stretch ("literal quote") and its second
\* quote ("skipped"), a comma outside quotes ("separator"), or "text"
CharacterKinds(line) ==
    LET from[k \in Nat, quoted \in BOOLEAN, second \in BOOLEAN] ==
            IF k > Len(line) THEN <<>>
            ELSE IF second THEN <<"skipped">> \o from[k + 1, TRUE, FALSE]
            ELSE IF Char(line, k) = "\"" /\ quoted /\ k < Len(line) /\ Char(line, k + 1) = "\""
            THEN <<"literal quote">> \o from[k + 1, TRUE, TRUE]
            ELSE IF Char(line, k) = "\"" THEN <<"delimiter">> \o from[k + 1, ~quoted, FALSE]
            ELSE IF Char(line, k) = "," /\ ~quoted
            THEN <<"separator">> \o from[k + 1, FALSE, FALSE]
            ELSE <<"text">> \o from[k + 1, quoted, FALSE]
    IN  from[1, FALSE, FALSE]

\* the text of field n of a line: the text characters and the literal quotes
\* between the (n-1)th and the nth separator, trimmed
FieldText(line, kinds, n) ==
    LET inField(k) == Cardinality({j \in 1..(k - 1) : kinds[j] = "separator"}) = n - 1
        text[k \in 0..Len(line)] ==
            IF k = 0 THEN ""
            ELSE IF inField(k) /\ kinds[k] \in {"text", "literal quote"}
            THEN text[k - 1] \o Char(line, k)
            ELSE text[k - 1]
    IN  Trim(text[Len(line)])

EndsWith(s, suffix) ==
    Len(s) >= Len(suffix) /\ SubSeq(s, Len(s) - Len(suffix) + 1, Len(s)) = suffix

\* the position of the quote that a line leaves open, 0 when every quoted
\* stretch is closed
OpenQuote(kinds) ==
    LET delimiters == {k \in 1..Len(kinds) : kinds[k] = "delimiter"} IN
    IF Cardinality(delimiters) % 2 = 0 THEN 0
    ELSE CHOOSE k \in delimiters : \A j \in delimiters : j <= k

\* the characters of a line after position d, a doubled quote taken as one
TextAfter(line, kinds, d) ==
    LET text[k \in d..Len(line)] ==
            IF k = d THEN ""
            ELSE IF kinds[k] \in {"text", "literal quote"} THEN text[k - 1] \o Char(line, k)
            ELSE text[k - 1]
    IN  text[Len(line)]

\* C26: field parsing never fails.  parseCSVLine can be applied to every
\* line and returns at least one field; for a line that leaves a quote open,
\* everything after that quote, commas included, is the end of the last
\* field.
C26_NeverFails ==
    call.fn = "parseCSVLine" =>
        /\ ~call.returned => ENABLED Call_parseCSVLine
        /\ call.returned =>
              LET kinds == CharacterKinds(call.input)
                  open  == OpenQuote(kinds)
              IN  /\ Len(call.output) >= 1
                  /\ open # 0 =>
                        /\ \A k \in open..Len(kinds) : kinds[k] # "separator"
                        /\ EndsWith(call.output[Len(call.output)],
                                    Trim(TextAfter(call.input, kinds, open)))

\* parseCSVLine has returned two fields for a line whose second field opens
\* a quote that is never closed and holds a comma
C26_UnclosedQuoteTakesRest ==
    /\ call.returned
    /\ call.fn = "parseCSVLine"
    /\ call.input = "a,\"b,c"
    /\ call.output = <<"a", "b,c">>

\* C27: a row that fails normalization leaves the store unchanged.  A row
\* with a blank required field, an invalid date or an invalid amount is
\* handled as failed with no location and no product inserted, no sale
\* appended and no inventory row created or written.
C27_FailedNormalizationNoWrite ==
    \A u \in Requests : \A k \in 1..Len(hist[u]) :
        LET row == req[u].rows[k]
            t   == hist[u][k].trace
        IN  ~NormalizeRow(row, ExpectedHeaders(req[u].dataSource)).ok =>
               /\ hist[u][k].outcome = "failed"
               /\ ~t.locationInserted
               /\ ~t.productInserted
               /\ t.sale = 0
               /\ ~t.seeded /\ t.written = -1

\* C28: resolution by UPC never creates a product for a UPC that the store
\* holds.  With the request alone and every store operation succeeding, a
\* row whose UPC one or several products of the store carried when the row
\* resolved its product gets one of those products, and inserts none.
C28_NoProductForKnownUPC ==
    Undisturbed =>
        \A u \in Requests : \A k \in 1..Len(hist[u]) :
            LET t       == hist[u][k].trace
                holders == {i \in ProductsBefore(u, k) : products[i].upc = t.upc}
            IN  (t.upc # "" /\ holders # {} /\ t.location # 0) =>
                   /\ ~t.productInserted
                   /\ t.product \in holders

\* the sales transactions recorded for a (location, product) pair
SalesOfPair(l, p) ==
    {s \in 1..Len(sales_transactions) :
        sales_transactions[s].location_id = l /\ sales_transactions[s].product_id = p}

\* C29: stock reconciles with recorded sales.  With the request alone and
\* every store operation succeeding, when the batch has finished every
\* inventory row that the pipeline created holds the seed stock less the
\* number of sales transactions recorded for its pair, and not less than 0.
C29_StockReconciles ==
    (Undisturbed /\ \A u \in Requests : req[u].pc \in {"idle", "done"}) =>
        \A i \in (Len(initial.inventory) + 1)..Len(inventory) :
            inventory[i].current_stock =
                Max2(0, SeedStock - Cardinality(SalesOfPair(inventory[i].location_id,
                                                            inventory[i].product_id)))

\* a finished batch has recorded two sales for a pair whose inventory row
\* it created, which holds 23
C29_TwoSalesOfCreatedPair ==
    /\ Undisturbed
    /\ \A u \in Requests : req[u].pc \in {"idle", "done"}
    /\ \E i \in (Len(initial.inventory) + 1)..Len(inventory) :
          /\ Cardinality(SalesOfPair(inventory[i].location_id, inventory[i].product_id)) = 2
          /\ inventory[i].current_stock = 23

\* C30: every sales transaction recorded for a row references a product
\* with the UPC of that row.
C30_SaleProductHasRowUPC ==
    \A u \in Requests : \A k \in 1..Len(req[u].rows) :
        LET t == RowTrace(u, k) IN
        t.sale # 0 =>
            products[sales_transactions[t.sale].product_id].upc =
                Trim(req[u].rows[k][ExpectedHeaders(req[u].dataSource)[3]])

====
